---- MODULE Spec2Model ----
(***************************************************************************)
(* FlashText (src/src/flashtext.ts): a keyword trie with exact and fuzzy   *)
(* extraction / replacement of keywords in a sentence.                     *)
(*                                                                         *)
(* A JavaScript string is modelled as the sequence of its UTF-16 code      *)
(* units, each a string naming the unit (Chars("ab") = <<"a", "b">>;       *)
(* units outside ASCII are named "U+0130", ...).  Its length, charAt,      *)
(* slice and [] count code units; `for (const char of s)` iterates code    *)
(* points (CodePoints).  A trie node (a Map) is identified by the path of  *)
(* keys leading to it from the root; the trie is a function from those     *)
(* paths to [keys, clean]: keys is the Map's keys in insertion order       *)
(* (characters and the '_keyword_' marker), clean the value stored under   *)
(* the marker.  Offsets are 0-based as in the source.                      *)
(***************************************************************************)
EXTENDS Naturals, Integers, Sequences, FiniteSets, TLC

VARIABLES keywordTrieDict, termsInTrie, caseSensitive, nonWordBoundaries,
          op, args, ret

vars == <<keywordTrieDict, termsInTrie, caseSensitive, nonWordBoundaries,
          op, args, ret>>

(***************************************************************************)
(* Strings                                                                 *)
(***************************************************************************)
Chars(s) == [i \in 1..Len(s) |-> SubSeq(s, i, i)]

\* JavaScript's null / undefined, kept apart from every string (no string
\* of this model holds a character of more than one letter).
Null == <<"null">>
Undefined == <<"undefined">>

UpperLetters == Chars("ABCDEFGHIJKLMNOPQRSTUVWXYZ")
LowerLetters == Chars("abcdefghijklmnopqrstuvwxyz")
Digits == Chars("0123456789")

Range(f) == {f[i] : i \in DOMAIN f}

\* Body applied to the value of e, computed once (a local constant of the
\* source: `const x = e; ...`)
Bind(e, Body(_)) == CHOOSE r \in {Body(x) : x \in {e}} : TRUE

\* Code units outside ASCII: U+0130 (capital I with dot above), whose lower
\* case is the two units 'i' U+0307, and the surrogate pair U+D83D U+DE00 of
\* the code point U+1F600.
CapitalIDot == "U+0130"
CombiningDot == "U+0307"
HighSurrogate == "U+D83D"
LowSurrogate == "U+DE00"

\* String.prototype.toLowerCase, one code unit
LowerChar(c) ==
    IF c \in Range(UpperLetters)
    THEN <<LowerLetters[CHOOSE i \in 1..26 : UpperLetters[i] = c]>>
    ELSE IF c = CapitalIDot THEN <<"i", CombiningDot>>
    ELSE <<c>>

RECURSIVE toLowerCase(_)
toLowerCase(s) ==
    IF s = <<>> THEN <<>> ELSE LowerChar(Head(s)) \o toLowerCase(Tail(s))

\* The characters `for (const char of s)` iterates: the code points of s, a
\* high surrogate followed by a low surrogate being one character.
RECURSIVE CodePoints(_)
CodePoints(s) ==
    IF s = <<>> THEN <<>>
    ELSE IF Len(s) >= 2 /\ s[1] = HighSurrogate /\ s[2] = LowSurrogate
         THEN <<HighSurrogate \o LowSurrogate>> \o CodePoints(SubSeq(s, 3, Len(s)))
         ELSE <<s[1]>> \o CodePoints(Tail(s))

\* the code units of one character
CodeUnits(char) ==
    IF char = HighSurrogate \o LowSurrogate
    THEN <<HighSurrogate, LowSurrogate>>
    ELSE <<char>>

\* String.prototype.charAt with a 0-based index ('' when out of range)
charAt(s, i) == IF i >= 0 /\ i < Len(s) THEN s[i + 1] ELSE ""

\* String.prototype.slice(from) and slice(from, to), 0-based, to exclusive
sliceFrom(s, from) == SubSeq(s, from + 1, Len(s))
slice(s, from, to) == SubSeq(s, from + 1, IF to > Len(s) THEN Len(s) ELSE to)

(***************************************************************************)
(* The constructor's sets                                                  *)
(***************************************************************************)
_keyword == "_keyword_"
_whiteSpaceChars == {".", "\t", "\n", " ", ","}
DefaultNonWordBoundaries ==
    Range(Digits) \cup Range(LowerLetters) \cup Range(UpperLetters) \cup {"_"}

(***************************************************************************)
(* Map operations on trie nodes                                            *)
(***************************************************************************)
NewMap == [keys |-> <<>>, clean |-> <<>>]
Root == <<>>
EmptyTrie == (Root :> NewMap)

MapHas(trie, node, key) == \E i \in 1..Len(trie[node].keys) : trie[node].keys[i] = key
MapSize(trie, node) == Len(trie[node].keys)
MapGetNode(node, char) == Append(node, char)

IsPrefix(p, q) == Len(p) <= Len(q) /\ SubSeq(q, 1, Len(p)) = p

RemoveKey(keys, key) ==
    LET keep == {i \in 1..Len(keys) : keys[i] # key}
        F[i \in 0..Len(keys)] ==
            IF i = 0 THEN <<>>
            ELSE IF i \in keep THEN Append(F[i - 1], keys[i]) ELSE F[i - 1]
    IN F[Len(keys)]

\* Map.set(char, new Map()) on a node that has no such key
MapSetNode(trie, node, char) ==
    (MapGetNode(node, char) :> NewMap)
        @@ [trie EXCEPT ![node].keys = Append(@, char)]

\* Map.set('_keyword_', cleanName) on a node that has no such key
MapSetKeyword(trie, node, cleanName) ==
    [trie EXCEPT ![node] = [keys |-> Append(@.keys, _keyword), clean |-> cleanName]]

\* Map.delete(key): the subtree below a deleted edge is no longer reachable
MapDelete(trie, node, key) ==
    IF key = _keyword
    THEN [trie EXCEPT ![node] = [keys |-> RemoveKey(@.keys, key), clean |-> <<>>]]
    ELSE LET kept == {p \in DOMAIN trie : ~IsPrefix(MapGetNode(node, key), p)}
         IN [p \in kept |->
                IF p = node
                THEN [trie[p] EXCEPT !.keys = RemoveKey(@, key)]
                ELSE trie[p]]

(***************************************************************************)
(* _getItem / contains                                                     *)
(***************************************************************************)
\* `word` is the sequence of characters the for-of loop iterates
RECURSIVE LookupWalk(_, _, _, _)
LookupWalk(trie, word, lenCovered, currentDict) ==
    IF lenCovered < Len(word) /\ MapHas(trie, currentDict, word[lenCovered + 1])
    THEN LookupWalk(trie, word, lenCovered + 1,
                    MapGetNode(currentDict, word[lenCovered + 1]))
    ELSE [currentDict |-> currentDict, lenCovered |-> lenCovered]

\* no normalization, whatever the flag
NormalizeNever(cs, word) == word

Normalize(cs, word) == IF cs THEN word ELSE toLowerCase(word)

contains(trie, cs, word0) ==
    Bind(Normalize(cs, word0), LAMBDA word :
    Bind(LookupWalk(trie, CodePoints(word), 0, Root), LAMBDA w :
        MapHas(trie, w.currentDict, _keyword) /\ w.lenCovered = Len(word)))

_getItem(trie, cs, word0) ==
    Bind(Normalize(cs, word0), LAMBDA word :
    Bind(LookupWalk(trie, CodePoints(word), 0, Root), LAMBDA w :
        IF MapHas(trie, w.currentDict, _keyword) /\ w.lenCovered = Len(word)
        THEN trie[w.currentDict].clean
        ELSE Undefined))

(***************************************************************************)
(* _setItem                                                                *)
(***************************************************************************)
\* `keyword` is the sequence of characters the for-of loop iterates
RECURSIVE SetWalk(_, _, _, _)
SetWalk(trie, keyword, i, currentDict) ==
    IF i > Len(keyword)
    THEN [trie |-> trie, currentDict |-> currentDict]
    ELSE LET letter == keyword[i]
             nextDict == MapGetNode(currentDict, letter)
         IN IF MapHas(trie, currentDict, letter)
            THEN SetWalk(trie, keyword, i + 1, nextDict)
            ELSE Bind(MapSetNode(trie, currentDict, letter),
                      LAMBDA t : SetWalk(t, keyword, i + 1, nextDict))

\* an insertion that counts a term even when the marker is already there
_setItemCountsAlways(trie, terms, cs, keyword0, cleanName0) ==
    IF keyword0 = <<>>
    THEN [status |-> FALSE, trie |-> trie, terms |-> terms]
    ELSE Bind(Normalize(cs, keyword0), LAMBDA keyword :
         Bind(SetWalk(trie, CodePoints(keyword), 1, Root), LAMBDA w :
            IF ~MapHas(w.trie, w.currentDict, _keyword)
            THEN [status |-> TRUE,
                  trie |-> MapSetKeyword(w.trie, w.currentDict,
                              IF cleanName0 = Null THEN keyword0 ELSE cleanName0),
                  terms |-> terms + 1]
            ELSE [status |-> FALSE, trie |-> w.trie, terms |-> terms + 1]))

_setItem(trie, terms, cs, keyword0, cleanName0) ==
    IF keyword0 = <<>>
    THEN [status |-> FALSE, trie |-> trie, terms |-> terms]
    ELSE LET cleanName == IF cleanName0 = Null THEN keyword0 ELSE cleanName0
         IN Bind(Normalize(cs, keyword0), LAMBDA keyword :
            Bind(SetWalk(trie, CodePoints(keyword), 1, Root), LAMBDA w :
            IF ~MapHas(w.trie, w.currentDict, _keyword)
            THEN [status |-> TRUE,
                  trie |-> MapSetKeyword(w.trie, w.currentDict, cleanName),
                  terms |-> terms + 1]
            ELSE [status |-> FALSE, trie |-> w.trie, terms |-> terms]))

(***************************************************************************)
(* _deleteItem                                                             *)
(***************************************************************************)
\* the walk: characterTrieList, and currentDict (Null when a letter is missing)
RECURSIVE DeleteWalk(_, _, _, _, _)
DeleteWalk(trie, keyword, i, currentDict, characterTrieList) ==
    IF i > Len(keyword)
    THEN [currentDict |-> currentDict, characterTrieList |-> characterTrieList]
    ELSE IF MapHas(trie, currentDict, keyword[i])
         THEN Bind(Append(characterTrieList, <<keyword[i], currentDict>>),
                   LAMBDA list : DeleteWalk(trie, keyword, i + 1,
                                            MapGetNode(currentDict, keyword[i]), list))
         ELSE [currentDict |-> Null, characterTrieList |-> characterTrieList]

Reverse(s) == [i \in 1..Len(s) |-> s[Len(s) + 1 - i]]

\* a pruning loop without the sibling test: every edge on the path is deleted
RECURSIVE DeleteLoopNoSiblingTest(_, _, _)
DeleteLoopNoSiblingTest(trie, list, i) ==
    IF i > Len(list)
    THEN trie
    ELSE Bind(MapDelete(trie, list[i][2], list[i][1]),
              LAMBDA t : DeleteLoopNoSiblingTest(t, list, i + 1))

\* a removal that deletes the marker and prunes nothing
DeleteLoopMarkerOnly(trie, list, i) == MapDelete(trie, list[i][2], list[i][1])

RECURSIVE DeleteLoop(_, _, _)
DeleteLoop(trie, list, i) ==
    IF i > Len(list)
    THEN trie
    ELSE LET keyToRemove == list[i][1]
             dictPointer == list[i][2]
         IN IF MapSize(trie, dictPointer) = 1
            THEN Bind(MapDelete(trie, dictPointer, keyToRemove),
                      LAMBDA t : DeleteLoop(t, list, i + 1))
            ELSE MapDelete(trie, dictPointer, keyToRemove)

\* a removal that does not test for the marker at the end of the walk
_deleteItemNoMarkerTest(trie, terms, cs, keyword0) ==
    IF keyword0 = <<>>
    THEN [status |-> FALSE, trie |-> trie, terms |-> terms]
    ELSE Bind(Normalize(cs, keyword0), LAMBDA keyword :
         Bind(DeleteWalk(trie, CodePoints(keyword), 1, Root, <<>>), LAMBDA w :
            IF w.currentDict # Null
            THEN [status |-> TRUE,
                  trie |-> Bind(Reverse(Append(w.characterTrieList,
                                               <<_keyword, w.currentDict>>)),
                                LAMBDA list : DeleteLoop(trie, list, 1)),
                  terms |-> terms - 1]
            ELSE [status |-> FALSE, trie |-> trie, terms |-> terms]))

_deleteItem(trie, terms, cs, keyword0) ==
    IF keyword0 = <<>>
    THEN [status |-> FALSE, trie |-> trie, terms |-> terms]
    ELSE Bind(Normalize(cs, keyword0), LAMBDA keyword :
         Bind(DeleteWalk(trie, CodePoints(keyword), 1, Root, <<>>), LAMBDA w :
            IF w.currentDict # Null /\ MapHas(trie, w.currentDict, _keyword)
            THEN [status |-> TRUE,
                  trie |-> Bind(Reverse(Append(w.characterTrieList,
                                               <<_keyword, w.currentDict>>)),
                                LAMBDA list : DeleteLoop(trie, list, 1)),
                  terms |-> terms - 1]
            ELSE [status |-> FALSE, trie |-> trie, terms |-> terms]))

(***************************************************************************)
(* The bulk operations and getAllKeywords                                  *)
(***************************************************************************)
\* A value handed to a bulk operation: an array with its items, or a value
\* for which Array.isArray is false.
Array(items) == [isArray |-> TRUE, items |-> items]
NotAnArray == [isArray |-> FALSE, items |-> <<>>]

\* for (const keyword of keywords) this.addKeyword(keyword, cleanName);
\* t is [trie, terms, threw]: threw when an Error left the operation
RECURSIVE AddEach(_, _, _, _, _)
AddEach(t, cs, keywords, cleanName, i) ==
    IF i > Len(keywords)
    THEN t
    ELSE Bind(_setItem(t.trie, t.terms, cs, keywords[i], cleanName), LAMBDA r :
              AddEach([t EXCEPT !.trie = r.trie, !.terms = r.terms], cs, keywords,
                      cleanName, i + 1))

\* for (const keyword of keywords) this.removeKeyword(keyword)
RECURSIVE RemoveEach(_, _, _, _)
RemoveEach(t, cs, keywords, i) ==
    IF i > Len(keywords)
    THEN t
    ELSE Bind(_deleteItem(t.trie, t.terms, cs, keywords[i]), LAMBDA r :
              RemoveEach([t EXCEPT !.trie = r.trie, !.terms = r.terms], cs, keywords,
                         i + 1))

\* a variant that validates every entry before it inserts anything
RECURSIVE addKeywordsFromDictAtomic(_, _, _, _)
addKeywordsFromDictAtomic(t, cs, keywordDict, i) ==
    IF \E j \in 1..Len(keywordDict) : ~keywordDict[j][2].isArray
    THEN [t EXCEPT !.threw = TRUE]
    ELSE IF i > Len(keywordDict)
    THEN t
    ELSE Bind(AddEach(t, cs, keywordDict[i][2].items, keywordDict[i][1], 1),
              LAMBDA t1 : addKeywordsFromDictAtomic(t1, cs, keywordDict, i + 1))

\* keywordDict is the sequence of the object's entries <<cleanName, keywords>>
RECURSIVE addKeywordsFromDict(_, _, _, _)
addKeywordsFromDict(t, cs, keywordDict, i) ==
    IF i > Len(keywordDict)
    THEN t
    ELSE IF ~keywordDict[i][2].isArray
    THEN [t EXCEPT !.threw = TRUE]
    ELSE Bind(AddEach(t, cs, keywordDict[i][2].items, keywordDict[i][1], 1),
              LAMBDA t1 : addKeywordsFromDict(t1, cs, keywordDict, i + 1))

RECURSIVE removeKeywordsFromDict(_, _, _, _)
removeKeywordsFromDict(t, cs, keywordDict, i) ==
    IF i > Len(keywordDict)
    THEN t
    ELSE IF ~keywordDict[i][2].isArray
    THEN [t EXCEPT !.threw = TRUE]
    ELSE Bind(RemoveEach(t, cs, keywordDict[i][2].items, 1), LAMBDA t1 :
              removeKeywordsFromDict(t1, cs, keywordDict, i + 1))

addKeywordsFromList(t, cs, keywordList) ==
    IF ~keywordList.isArray
    THEN [t EXCEPT !.threw = TRUE]
    ELSE AddEach(t, cs, keywordList.items, Null, 1)

removeKeywordsFromList(t, cs, keywordList) ==
    IF ~keywordList.isArray
    THEN [t EXCEPT !.threw = TRUE]
    ELSE RemoveEach(t, cs, keywordList.items, 1)

\* termSoFar + char along a path of the trie
RECURSIVE TermOf(_)
TermOf(path) ==
    IF path = <<>> THEN <<>> ELSE CodeUnits(Head(path)) \o TermOf(Tail(path))

\* The entries <<termSoFar, label>> the traversal assigns to allKeywords, in
\* the order it assigns them.
RECURSIVE _retrieveAllKeywords(_, _, _)
_retrieveAllKeywords(trie, currentDict, i) ==
    IF i > Len(trie[currentDict].keys)
    THEN <<>>
    ELSE LET char == trie[currentDict].keys[i]
         IN (IF char = _keyword
             THEN << <<TermOf(currentDict), trie[currentDict].clean>> >>
             ELSE _retrieveAllKeywords(trie, MapGetNode(currentDict, char), 1))
            \o _retrieveAllKeywords(trie, currentDict, i + 1)

\* The object returned, as the function from its keys to their values (a
\* later assignment to the same key replaces the earlier one).
getAllKeywords(trie) ==
    Bind(_retrieveAllKeywords(trie, Root, 1), LAMBDA entries :
        [k \in {entries[i][1] : i \in 1..Len(entries)} |->
            entries[CHOOSE i \in 1..Len(entries) :
                        /\ entries[i][1] = k
                        /\ \A j \in (i + 1)..Len(entries) : entries[j][1] # k][2]])

(***************************************************************************)
(* _getNextWord, _levensthein, _levenshteinRec                             *)
(***************************************************************************)
\* the loop of _getNextWord over the characters of the sentence
RECURSIVE NextWordFrom(_, _)
NextWordFrom(nwb, chars) ==
    IF chars = <<>> \/ Head(chars) \notin nwb
    THEN <<>>
    ELSE CodeUnits(Head(chars)) \o NextWordFrom(nwb, Tail(chars))

_getNextWord(nwb, sentence) == NextWordFrom(nwb, CodePoints(sentence))

Min(a, b) == IF a <= b THEN a ELSE b
MinOf(row) == CHOOSE m \in Range(row) : \A x \in Range(row) : m <= x

\* the row of `char` from the row of its parent; rows[col] of the source is
\* rows[col + 1] here, word[col - 1] is word[col]
RECURSIVE NewRowsFrom(_, _, _, _)
NewRowsFrom(char, word, rows, newRows) ==
    IF Len(newRows) = Len(word) + 1
    THEN newRows
    ELSE LET col == Len(newRows)
             insertCost == newRows[col] + 1
             deleteCost == rows[col + 1] + 1
             replaceCost == rows[col] + (IF word[col] # char THEN 1 ELSE 0)
         IN Bind(Append(newRows, Min(insertCost, Min(deleteCost, replaceCost))),
                 LAMBDA r : NewRowsFrom(char, word, rows, r))

NewRows(char, word, rows) == NewRowsFrom(char, word, rows, <<rows[1] + 1>>)

\* [...node.keys()].some(key => whiteSpaceChars.has(key) || key === '_keyword_')
StopCrit(trie, node) ==
    \E i \in 1..Len(trie[node].keys) :
        trie[node].keys[i] \in _whiteSpaceChars \/ trie[node].keys[i] = _keyword

\* The candidates <<node, cost, depth>> in the order the generator yields
\* them.  `parent` is the Map iterated, `char` one of its keys; the value
\* under '_keyword_' is a string, not a Map, and yields nothing.
RECURSIVE _levenshteinRec(_, _, _, _, _, _, _)
RECURSIVE LevForEach(_, _, _, _, _, _, _)
_levenshteinRec(trie, char, parent, word, rows, maxCost, depth) ==
    LET isMap == char # _keyword
        node == MapGetNode(parent, char)
    IN Bind(NewRows(char, word, rows), LAMBDA newRows :
       \* `cost` keeps its initial 0 when the word is empty (no column)
       LET cost == IF Len(word) = 0 THEN 0 ELSE newRows[Len(newRows)]
       IN IF isMap /\ newRows[Len(newRows)] <= maxCost /\ StopCrit(trie, node)
          THEN << <<node, cost, depth>> >>
          ELSE IF isMap /\ MinOf(newRows) <= maxCost
               THEN LevForEach(trie, node, word, newRows, maxCost, depth + 1, 1)
               ELSE <<>>)

\* for (const [char, node] of map) yield* _levenshteinRec(char, node, ...)
LevForEach(trie, map, word, rows, maxCost, depth, i) ==
    IF i > Len(trie[map].keys)
    THEN <<>>
    ELSE _levenshteinRec(trie, trie[map].keys[i], map, word, rows, maxCost, depth)
             \o LevForEach(trie, map, word, rows, maxCost, depth, i + 1)

\* a variant that lets candidates through one edit above the budget
_levenstheinOverBudget(trie, word, maxCost, startNode) ==
    Bind([i \in 1..(Len(word) + 1) |-> i - 1], LAMBDA rows :
        LevForEach(trie, startNode, word, rows, maxCost + 1, 1, 1))

\* a variant that yields a candidate of the lowest cost first
_levenstheinBestFirst(trie, word, maxCost, startNode) ==
    Bind([i \in 1..(Len(word) + 1) |-> i - 1], LAMBDA rows :
    Bind(LevForEach(trie, startNode, word, rows, maxCost, 1, 1), LAMBDA y :
        IF y = <<>>
        THEN y
        ELSE LET best == CHOOSE i \in 1..Len(y) :
                             /\ \A j \in 1..Len(y) : y[i][2] <= y[j][2]
                             /\ \A j \in 1..(i - 1) : y[j][2] > y[i][2]
             IN <<y[best]>> \o SubSeq(y, 1, best - 1) \o SubSeq(y, best + 1, Len(y))))

_levensthein(trie, word, maxCost, startNode) ==
    Bind([i \in 1..(Len(word) + 1) |-> i - 1], LAMBDA rows :
        LevForEach(trie, startNode, word, rows, maxCost, 1, 1))

\* sentence.slice(i, i + this._getNextWord(sentence.slice(i)).length)
NextWordAt(nwb, sentence, i) ==
    slice(sentence, i, i + Len(_getNextWord(nwb, sliceFrom(sentence, i))))

(***************************************************************************)
(* extractKeywords                                                         *)
(***************************************************************************)
\* a JavaScript value used as a condition: neither undefined/null nor ''
Truthy(x) == x # Undefined /\ x # Null /\ x # <<>>

\* currentDict.get('_keyword_'): undefined when the node has no marker
GetKeywordOf(trie, node) ==
    IF MapHas(trie, node, _keyword) THEN trie[node].clean ELSE Undefined

\* iterations records, for every iteration of the inner loop (543-585,
\* 745-787), <<"inner", idy before, idy after, depth of currentDictContinued
\* before, after, whether the iteration left the loop by break or by a
\* TypeError>>, and for every completed iteration of the outer loop (521-672,
\* 717-869) <<"outer", idx before, idx after>>.
InnerIteration(c, c2) ==
    [c2 EXCEPT !.iterations =
        Append(@, <<"inner", c.idy, c2.idy, Len(c.currentDictContinued),
                    Len(c2.currentDictContinued), c2.broke \/ c2.threw>>)]

OuterIteration(s, s1) ==
    IF s1.threw
    THEN s1
    ELSE [s1 EXCEPT !.iterations = Append(@, <<"outer", s.idx, s1.idx>>)]

\* One approximate lookup of extractKeywords' inner loop (lines 562-579): c
\* with the first candidate taken, or threw set when the generator yields
\* nothing (destructuring `undefined` raises a TypeError).  lookups records
\* <<budget the lookup was called with, cost it returned (-1: nothing), the
\* word looked up, the node the lookup started from>>.
ExtractInnerLookup(trie, nwb, sentence, c) ==
    Bind(NextWordAt(nwb, sentence, c.idy), LAMBDA nextWord :
    Bind(_levensthein(trie, nextWord, c.currCost, c.currentDictContinued),
         LAMBDA yielded :
        IF yielded = <<>>
        THEN [c EXCEPT !.threw = TRUE,
                       !.lookups = Append(@, <<c.currCost, -1, nextWord,
                                               c.currentDictContinued>>)]
        ELSE [c EXCEPT !.currentDictContinued = yielded[1][1],
                       !.currCost = @ - yielded[1][2],
                       !.idy = (@ + Len(nextWord) - 1) + 1,
                       !.lookups = Append(@, <<c.currCost, yielded[1][2], nextWord,
                                               c.currentDictContinued>>)]))

\* lines 545-555: a boundary character after a node that holds a keyword
ExtractInnerMark(trie, nwb, sentence, c) ==
    IF charAt(sentence, c.idy) \notin nwb
       /\ Truthy(GetKeywordOf(trie, c.currentDictContinued))
    THEN [c EXCEPT !.longestSequenceFound = trie[c.currentDictContinued].clean,
                   !.sequenceEndPos = c.idy,
                   !.isLongerSeqFound = TRUE]
    ELSE c

\* The inner while loop (idy) of extractKeywords, lines 543-585.  A lookup
\* returns a Map, so `if (!currentDictContinued) break` is never taken.
RECURSIVE ExtractInner(_, _, _, _)
ExtractInner(trie, nwb, sentence, c) ==
    IF c.threw \/ c.broke \/ ~(c.idy < Len(sentence))
    THEN c
    ELSE Bind(ExtractInnerMark(trie, nwb, sentence, c), LAMBDA c1 :
         Bind(IF MapHas(trie, c1.currentDictContinued, charAt(sentence, c1.idy))
              THEN [c1 EXCEPT !.currentDictContinued =
                                  MapGetNode(@, charAt(sentence, c1.idy)),
                              !.idy = @ + 1]
              ELSE IF c1.currCost > 0
                   THEN ExtractInnerLookup(trie, nwb, sentence, c1)
                   ELSE [c1 EXCEPT !.broke = TRUE],
              LAMBDA c2 : ExtractInner(trie, nwb, sentence, InnerIteration(c, c2))))

\* lines 587-596, commented "end of sentence reached": runs after the loop
\* however the loop was left
ExtractAfterInner(trie, c) ==
    IF MapHas(trie, c.currentDictContinued, _keyword)
    THEN [c EXCEPT !.longestSequenceFound = trie[c.currentDictContinued].clean,
                   !.sequenceEndPos = c.idy,
                   !.isLongerSeqFound = TRUE]
    ELSE c

\* lines 603-615: reset to the root and emit the longest sequence found
ExtractEmit(maxCost, s, c) ==
    LET idx == IF c.isLongerSeqFound THEN c.sequenceEndPos ELSE s.idx
    IN IF c.threw
       THEN [s EXCEPT !.threw = TRUE, !.lookups = c.lookups,
                   !.iterations = c.iterations]
       ELSE [s EXCEPT !.idx = idx,
                      !.sequenceEndPos = c.sequenceEndPos,
                      !.currentDict = Root,
                      !.keywordsExtracted =
                          IF Truthy(c.longestSequenceFound)
                          THEN Append(@, <<c.longestSequenceFound,
                                           s.sequenceStartPos, idx>>)
                          ELSE @,
                      !.currCost = IF Truthy(c.longestSequenceFound)
                                   THEN maxCost ELSE c.currCost,
                      !.lookups = c.lookups, !.iterations = c.iterations,
                      !.resetCurrentDict = TRUE]

\* lines 525-621: the character at idx is a word boundary
ExtractBoundary(trie, nwb, sentence, maxCost, s) ==
    LET char == charAt(sentence, s.idx)
        hasKeyword == MapHas(trie, s.currentDict, _keyword)
        c0 == [idy |-> s.idx + 1,
               currentDictContinued |-> MapGetNode(s.currentDict, char),
               currCost |-> s.currCost,
               longestSequenceFound |->
                   IF hasKeyword THEN trie[s.currentDict].clean ELSE Undefined,
               sequenceEndPos |-> IF hasKeyword THEN s.idx ELSE s.sequenceEndPos,
               isLongerSeqFound |-> FALSE,
               threw |-> FALSE,
               broke |-> FALSE,
               lookups |-> s.lookups, iterations |-> s.iterations]
    IN
    IF hasKeyword \/ MapHas(trie, s.currentDict, char)
    THEN IF MapHas(trie, s.currentDict, char)
         THEN Bind(c0, LAMBDA c :
              Bind(ExtractInner(trie, nwb, sentence, c), LAMBDA c1 :
              Bind(IF c1.threw THEN c1 ELSE ExtractAfterInner(trie, c1),
                   LAMBDA c2 : ExtractEmit(maxCost, s, c2))))
         ELSE Bind(c0, LAMBDA c : ExtractEmit(maxCost, s, c))
    ELSE [s EXCEPT !.currentDict = Root, !.resetCurrentDict = TRUE]

\* lines 646-657: skip to the end of the word
RECURSIVE SkipToEndOfWord(_, _, _)
SkipToEndOfWord(nwb, sentence, idy) ==
    IF idy < Len(sentence) /\ charAt(sentence, idy) \in nwb
    THEN SkipToEndOfWord(nwb, sentence, idy + 1)
    ELSE idy

\* lines 625-639: one approximate lookup of the outer scan
ExtractLookup(trie, nwb, sentence, s) ==
    Bind(NextWordAt(nwb, sentence, s.idx), LAMBDA nextWord :
    Bind(_levensthein(trie, nextWord, s.currCost, s.currentDict), LAMBDA yielded :
        IF yielded = <<>>
        THEN [s EXCEPT !.threw = TRUE,
                       !.lookups = Append(@, <<s.currCost, -1, nextWord,
                                               s.currentDict>>)]
        ELSE [s EXCEPT !.currentDict = yielded[1][1],
                       !.currCost = @ - yielded[1][2],
                       !.idx = @ + Len(nextWord) - 1,
                       !.lookups = Append(@, <<s.currCost, yielded[1][2], nextWord,
                                               s.currentDict>>)]))

\* lines 622-658: the character at idx is a word character
ExtractWordChar(trie, nwb, sentence, maxCost, s) ==
    LET char == charAt(sentence, s.idx)
    IN
    IF MapHas(trie, s.currentDict, char)
    THEN [s EXCEPT !.currentDict = MapGetNode(@, char)]
    ELSE IF s.currCost > 0
    THEN ExtractLookup(trie, nwb, sentence, s)
    ELSE [s EXCEPT !.currentDict = Root,
                   !.resetCurrentDict = TRUE,
                   !.idx = SkipToEndOfWord(nwb, sentence, s.idx + 1)]

\* an end of iteration that never moves sequenceStartPos
ExtractTailKeepsStart(trie, sentence, s) ==
    LET found == s.idx + 1 >= Len(sentence) /\ MapHas(trie, s.currentDict, _keyword)
    IN [s EXCEPT !.keywordsExtracted =
                     IF found
                     THEN Append(@, <<trie[s.currentDict].clean,
                                      s.sequenceStartPos, Len(sentence)>>)
                     ELSE @,
                 !.idx = @ + 1,
                 !.resetCurrentDict = FALSE]

\* lines 660-671: the end-of-sentence check, idx++, the new sequenceStartPos.
\* attempts records <<sequenceStartPos, currCost>> for every attempt begun.
ExtractTail(trie, sentence, s) ==
    LET found == s.idx + 1 >= Len(sentence) /\ MapHas(trie, s.currentDict, _keyword)
    IN [s EXCEPT !.keywordsExtracted =
                     IF found
                     THEN Append(@, <<trie[s.currentDict].clean,
                                      s.sequenceStartPos, Len(sentence)>>)
                     ELSE @,
                 !.idx = @ + 1,
                 !.resetCurrentDict = FALSE,
                 !.sequenceStartPos = IF s.resetCurrentDict THEN s.idx + 1 ELSE @,
                 !.attempts = IF s.resetCurrentDict
                              THEN Append(@, <<s.idx + 1, s.currCost>>) ELSE @]

\* one iteration of the outer while loop, lines 521-672
ExtractStep(trie, nwb, sentence, maxCost, s) ==
    Bind(IF charAt(sentence, s.idx) \notin nwb
         THEN ExtractBoundary(trie, nwb, sentence, maxCost, s)
         ELSE ExtractWordChar(trie, nwb, sentence, maxCost, s),
         LAMBDA s1 : IF s1.threw THEN s1 ELSE ExtractTail(trie, sentence, s1))

RECURSIVE ExtractLoop(_, _, _, _, _)
ExtractLoop(trie, nwb, sentence, maxCost, s) ==
    IF s.threw \/ ~(s.idx < Len(sentence))
    THEN s
    ELSE Bind(ExtractStep(trie, nwb, sentence, maxCost, s),
              LAMBDA s1 : ExtractLoop(trie, nwb, sentence, maxCost,
                                      OuterIteration(s, s1)))

ExtractInit(maxCost) ==
    [idx |-> 0, currentDict |-> Root, sequenceStartPos |-> 0,
     sequenceEndPos |-> 0, resetCurrentDict |-> FALSE,
     currCost |-> maxCost, keywordsExtracted |-> <<>>,
     threw |-> FALSE, attempts |-> << <<0, maxCost>> >>, lookups |-> <<>>, iterations |-> <<>>]

\* The result: threw (a TypeError left the function), value (the returned
\* array), and the observations attempts and lookups.
extractKeywords(trie, cs, nwb, sentence0, spanInfo, maxCost) ==
    IF sentence0 = <<>>
    THEN [threw |-> FALSE, value |-> <<>>, attempts |-> <<>>, lookups |-> <<>>, iterations |-> <<>>]
    ELSE
    Bind(Normalize(cs, sentence0), LAMBDA sentence :
    Bind(ExtractInit(maxCost), LAMBDA s0 :
    Bind(ExtractLoop(trie, nwb, sentence, maxCost, s0), LAMBDA s :
       [threw |-> s.threw,
        value |-> IF s.threw THEN <<>>
                  ELSE IF spanInfo THEN s.keywordsExtracted
                  ELSE [i \in 1..Len(s.keywordsExtracted) |-> s.keywordsExtracted[i][1]],
        attempts |-> s.attempts,
        lookups |-> s.lookups, iterations |-> s.iterations])))

(***************************************************************************)
(* replaceKeywords                                                         *)
(***************************************************************************)
\* lines 768-782: one approximate lookup of the inner loop; the next word is
\* taken from origSentence
ReplaceInnerLookup(trie, nwb, origSentence, c) ==
    Bind(_getNextWord(nwb, sliceFrom(origSentence, c.idy)), LAMBDA nextWord :
    Bind(_levensthein(trie, nextWord, c.currCost, c.currentDictContinued),
         LAMBDA yielded :
        IF yielded = <<>>
        THEN [c EXCEPT !.threw = TRUE,
                       !.lookups = Append(@, <<c.currCost, -1, nextWord,
                                               c.currentDictContinued>>)]
        ELSE [c EXCEPT !.currentDictContinued = yielded[1][1],
                       !.idy = (@ + Len(nextWord) - 1) + 1,
                       !.currCost = @ - yielded[1][2],
                       !.currentWordContinued = @ \o nextWord,
                       !.lookups = Append(@, <<c.currCost, yielded[1][2], nextWord,
                                               c.currentDictContinued>>)]))

\* lines 748-760
ReplaceInnerMark(trie, nwb, sentence, origSentence, c) ==
    IF charAt(sentence, c.idy) \notin nwb
       /\ MapHas(trie, c.currentDictContinued, _keyword)
    THEN [c EXCEPT !.currentWordContinued = Append(@, charAt(origSentence, c.idy)),
                   !.currentWhiteSpace = <<charAt(sentence, c.idy)>>,
                   !.longestSequenceFound = trie[c.currentDictContinued].clean,
                   !.sequenceEndPos = c.idy,
                   !.isLongerSeqFound = TRUE]
    ELSE c

\* The inner while loop (idy) of replaceKeywords, lines 745-787
RECURSIVE ReplaceInner(_, _, _, _, _)
ReplaceInner(trie, nwb, sentence, origSentence, c) ==
    IF c.threw \/ c.broke \/ ~(c.idy < Len(sentence))
    THEN c
    ELSE Bind(ReplaceInnerMark(trie, nwb, sentence, origSentence, c), LAMBDA c1 :
         Bind(IF MapHas(trie, c1.currentDictContinued, charAt(sentence, c1.idy))
              THEN [c1 EXCEPT !.currentWordContinued =
                                  Append(@, charAt(origSentence, c1.idy)),
                              !.currentDictContinued =
                                  MapGetNode(@, charAt(sentence, c1.idy)),
                              !.idy = @ + 1]
              ELSE IF c1.currCost > 0
                   THEN ReplaceInnerLookup(trie, nwb, origSentence, c1)
                   ELSE [c1 EXCEPT !.broke = TRUE],
              LAMBDA c2 : ReplaceInner(trie, nwb, sentence, origSentence,
                                       InnerIteration(c, c2))))

\* lines 789-806: reset to the root and push the label or the text read
ReplaceEmit(maxCost, s, c) ==
    IF c.threw
    THEN [s EXCEPT !.threw = TRUE, !.lookups = c.lookups,
                   !.iterations = c.iterations]
    ELSE [s EXCEPT !.idx = IF c.isLongerSeqFound THEN c.sequenceEndPos ELSE @,
                   !.sequenceEndPos = c.sequenceEndPos,
                   !.currentDict = Root,
                   !.lookups = c.lookups, !.iterations = c.iterations,
                   !.currCost = IF Truthy(c.longestSequenceFound)
                                THEN maxCost ELSE c.currCost,
                   !.newSentencePieces =
                       IF Truthy(c.longestSequenceFound)
                       THEN Append(@, c.longestSequenceFound \o c.currentWhiteSpace)
                       ELSE Append(@, IF c.isLongerSeqFound
                                      THEN c.currentWordContinued
                                      ELSE s.currentWord),
                   !.currentWord = <<>>,
                   !.currentWhiteSpace = <<>>]

\* lines 721-813: the character at idx is a word boundary
ReplaceBoundary(trie, nwb, sentence, origSentence, maxCost, s0) ==
    LET char == charAt(sentence, s0.idx)
    IN
    Bind([s0 EXCEPT !.currentWord = Append(@, charAt(origSentence, s0.idx)),
                    !.currentWhiteSpace = <<char>>], LAMBDA s :
    LET hasKeyword == MapHas(trie, s.currentDict, _keyword)
        c0 == [idy |-> s.idx + 1,
               currentDictContinued |-> MapGetNode(s.currentDict, char),
               currentWordContinued |-> s.currentWord,
               currentWhiteSpace |-> s.currentWhiteSpace,
               currCost |-> s.currCost,
               lookups |-> s.lookups, iterations |-> s.iterations,
               longestSequenceFound |->
                   IF hasKeyword THEN trie[s.currentDict].clean ELSE Null,
               sequenceEndPos |-> IF hasKeyword THEN s.idx ELSE s.sequenceEndPos,
               isLongerSeqFound |-> FALSE,
               threw |-> FALSE,
               broke |-> FALSE]
    IN
    IF hasKeyword \/ MapHas(trie, s.currentDict, char)
    THEN IF MapHas(trie, s.currentDict, char)
         THEN Bind(c0, LAMBDA c :
              Bind(ReplaceInner(trie, nwb, sentence, origSentence, c),
                   LAMBDA c1 : ReplaceEmit(maxCost, s, c1)))
         ELSE Bind(c0, LAMBDA c : ReplaceEmit(maxCost, s, c))
    ELSE [s EXCEPT !.currentDict = Root,
                   !.newSentencePieces = Append(@, s.currentWord),
                   !.currentWord = <<>>,
                   !.currentWhiteSpace = <<>>])

\* lines 819-833: one approximate lookup of the outer scan
ReplaceLookup(trie, cs, nwb, origSentence, s) ==
    Bind(_getNextWord(nwb, sliceFrom(origSentence, s.idx)), LAMBDA nextOrigWord :
    Bind(IF cs THEN nextOrigWord ELSE toLowerCase(nextOrigWord), LAMBDA nextWord :
    Bind(_levensthein(trie, nextWord, s.currCost, s.currentDict), LAMBDA yielded :
        IF yielded = <<>>
        THEN [s EXCEPT !.threw = TRUE,
                       !.lookups = Append(@, <<s.currCost, -1, nextWord,
                                               s.currentDict>>)]
        ELSE [s EXCEPT !.currentDict = yielded[1][1],
                       !.idx = @ + Len(nextWord) - 1,
                       !.currCost = @ - yielded[1][2],
                       !.currentWord = @ \o nextOrigWord,
                       !.lookups = Append(@, <<s.currCost, yielded[1][2], nextWord,
                                               s.currentDict>>)])))

\* lines 835-856: skip to the end of the word; the characters idx..idy are
\* copied (the boundary character at idy included, when there is one)
ReplaceSkip(nwb, sentence, origSentence, s) ==
    Bind(SkipToEndOfWord(nwb, sentence, s.idx + 1), LAMBDA idy :
        [s EXCEPT !.currentDict = Root,
                  !.idx = idy,
                  !.newSentencePieces =
                      Append(@, s.currentWord \o slice(origSentence, s.idx, idy + 1)),
                  !.currentWord = <<>>,
                  !.currentWhiteSpace = <<>>])

\* lines 814-857: the character at idx is a word character
ReplaceWordChar(trie, cs, nwb, sentence, origSentence, maxCost, s) ==
    LET char == charAt(sentence, s.idx)
    IN
    IF MapHas(trie, s.currentDict, char)
    THEN [s EXCEPT !.currentWord = Append(@, charAt(origSentence, s.idx)),
                   !.currentDict = MapGetNode(@, char)]
    ELSE IF s.currCost > 0
    THEN ReplaceLookup(trie, cs, nwb, origSentence, s)
    ELSE ReplaceSkip(nwb, sentence, origSentence, s)

\* lines 859-868: the end-of-sentence check and idx++
ReplaceTail(trie, sentence, s) ==
    [s EXCEPT !.newSentencePieces =
                  IF s.idx + 1 >= Len(sentence)
                  THEN IF MapHas(trie, s.currentDict, _keyword)
                       THEN Append(@, trie[s.currentDict].clean)
                       ELSE Append(@, s.currentWord)
                  ELSE @,
              !.idx = @ + 1]

\* one iteration of the outer while loop, lines 717-869
ReplaceStep(trie, cs, nwb, sentence, origSentence, maxCost, s) ==
    Bind(IF charAt(sentence, s.idx) \notin nwb
         THEN ReplaceBoundary(trie, nwb, sentence, origSentence, maxCost, s)
         ELSE ReplaceWordChar(trie, cs, nwb, sentence, origSentence, maxCost, s),
         LAMBDA s1 : IF s1.threw THEN s1 ELSE ReplaceTail(trie, sentence, s1))

RECURSIVE ReplaceLoop(_, _, _, _, _, _, _)
ReplaceLoop(trie, cs, nwb, sentence, origSentence, maxCost, s) ==
    IF s.threw \/ ~(s.idx < Len(sentence))
    THEN s
    ELSE Bind(ReplaceStep(trie, cs, nwb, sentence, origSentence, maxCost, s),
              LAMBDA s1 : ReplaceLoop(trie, cs, nwb, sentence, origSentence, maxCost,
                                      OuterIteration(s, s1)))

ReplaceInit(maxCost) ==
    [idx |-> 0, currentDict |-> Root, currentWord |-> <<>>,
     currentWhiteSpace |-> <<>>, sequenceEndPos |-> 0,
     currCost |-> maxCost, newSentencePieces |-> <<>>, threw |-> FALSE,
     lookups |-> <<>>, iterations |-> <<>>]

\* Array.prototype.join('')
RECURSIVE Join(_)
Join(pieces) == IF pieces = <<>> THEN <<>> ELSE Head(pieces) \o Join(Tail(pieces))

\* the result: threw or the new sentence, and the observation lookups (as in
\* extractKeywords)
replaceKeywords(trie, cs, nwb, origSentence, maxCost) ==
    IF origSentence = <<>>
    THEN [threw |-> FALSE, value |-> origSentence, lookups |-> <<>>, iterations |-> <<>>]
    ELSE
    Bind(Normalize(cs, origSentence), LAMBDA sentence :
    Bind(ReplaceInit(maxCost), LAMBDA s0 :
    Bind(ReplaceLoop(trie, cs, nwb, sentence, origSentence, maxCost, s0), LAMBDA s :
       [threw |-> s.threw,
        value |-> IF s.threw THEN <<>> ELSE Join(s.newSentencePieces),
        lookups |-> s.lookups, iterations |-> s.iterations])))

(***************************************************************************)
(* Bounds and inputs                                                       *)
(***************************************************************************)
MaxTerms == 2
MaxSentenceLen == 4
MaxCost == 1

SeqsUpTo(S, n) == UNION {[1..k -> S] : k \in 0..n}

SentenceAlphabet == {"a", "B", " "}
KeywordInputs == {Chars(""), Chars("a"), Chars("ab"), Chars("a B")}
CleanNameInputs == {Null, Chars(""), Chars("X")}
\* a sentence whose lower-cased form is longer than the sentence:
\* U+0130 becomes 'i' followed by U+0307
UnicodeSentences == {<<CapitalIDot, " ", "a">>}
SentenceInputs == SeqsUpTo(SentenceAlphabet, MaxSentenceLen) \cup UnicodeSentences
MaxCostInputs == 0..MaxCost

(***************************************************************************)
(* The object and its callers: one action per public method.  op, args and *)
(* ret hold the call just made and what it returned, until the caller      *)
(* takes the result (Return).                                              *)
(***************************************************************************)
Init ==
    /\ keywordTrieDict = EmptyTrie
    /\ termsInTrie = 0
    /\ caseSensitive \in BOOLEAN
    /\ nonWordBoundaries = DefaultNonWordBoundaries
    /\ op = "idle"
    /\ args = <<>>
    /\ ret = <<>>

AddKeyword(keyword, cleanName) ==
    /\ op = "idle"
    /\ LET r == _setItem(keywordTrieDict, termsInTrie, caseSensitive, keyword, cleanName)
       IN /\ r.terms <= MaxTerms
          /\ keywordTrieDict' = r.trie
          /\ termsInTrie' = r.terms
          /\ ret' = r.status
    /\ op' = "addKeyword"
    /\ args' = <<keyword, cleanName>>
    /\ UNCHANGED <<caseSensitive, nonWordBoundaries>>

RemoveKeyword(keyword) ==
    /\ op = "idle"
    /\ LET r == _deleteItem(keywordTrieDict, termsInTrie, caseSensitive, keyword)
       IN /\ keywordTrieDict' = r.trie
          /\ termsInTrie' = r.terms
          /\ ret' = r.status
    /\ op' = "removeKeyword"
    /\ args' = <<keyword>>
    /\ UNCHANGED <<caseSensitive, nonWordBoundaries>>

GetKeyword(keyword) ==
    /\ op = "idle"
    /\ ret' = _getItem(keywordTrieDict, caseSensitive, keyword)
    /\ op' = "getKeyword"
    /\ args' = <<keyword>>
    /\ UNCHANGED <<keywordTrieDict, termsInTrie, caseSensitive, nonWordBoundaries>>

\* a variant whose scan uses up the trie
ExtractKeywordsForgetting(sentence, spanInfo, maxCost) ==
    /\ op = "idle"
    /\ ret' = extractKeywords(keywordTrieDict, caseSensitive, nonWordBoundaries,
                              sentence, spanInfo, maxCost)
    /\ op' = "extractKeywords"
    /\ args' = <<sentence, spanInfo, maxCost>>
    /\ keywordTrieDict' = EmptyTrie
    /\ UNCHANGED <<termsInTrie, caseSensitive, nonWordBoundaries>>

ExtractKeywords(sentence, spanInfo, maxCost) ==
    /\ op = "idle"
    /\ ret' = extractKeywords(keywordTrieDict, caseSensitive, nonWordBoundaries,
                              sentence, spanInfo, maxCost)
    /\ op' = "extractKeywords"
    /\ args' = <<sentence, spanInfo, maxCost>>
    /\ UNCHANGED <<keywordTrieDict, termsInTrie, caseSensitive, nonWordBoundaries>>

ReplaceKeywords(sentence, maxCost) ==
    /\ op = "idle"
    /\ ret' = replaceKeywords(keywordTrieDict, caseSensitive, nonWordBoundaries,
                              sentence, maxCost)
    /\ op' = "replaceKeywords"
    /\ args' = <<sentence, maxCost>>
    /\ UNCHANGED <<keywordTrieDict, termsInTrie, caseSensitive, nonWordBoundaries>>

Contains(word) ==
    /\ op = "idle"
    /\ ret' = contains(keywordTrieDict, caseSensitive, word)
    /\ op' = "contains"
    /\ args' = <<word>>
    /\ UNCHANGED <<keywordTrieDict, termsInTrie, caseSensitive, nonWordBoundaries>>

Length ==
    /\ op = "idle"
    /\ ret' = termsInTrie
    /\ op' = "length"
    /\ args' = <<>>
    /\ UNCHANGED <<keywordTrieDict, termsInTrie, caseSensitive, nonWordBoundaries>>

GetAllKeywords ==
    /\ op = "idle"
    /\ ret' = getAllKeywords(keywordTrieDict)
    /\ op' = "getAllKeywords"
    /\ args' = <<>>
    /\ UNCHANGED <<keywordTrieDict, termsInTrie, caseSensitive, nonWordBoundaries>>

\* the Error a bulk operation throws
ErrorThrown == <<"Error">>

\* a bulk operation returns nothing (ret is Undefined) unless it throws
Bulk(name, input, t) ==
    /\ op = "idle"
    /\ t.terms <= MaxTerms
    /\ keywordTrieDict' = t.trie
    /\ termsInTrie' = t.terms
    /\ ret' = IF t.threw THEN ErrorThrown ELSE Undefined
    /\ op' = name
    /\ args' = <<input>>
    /\ UNCHANGED <<caseSensitive, nonWordBoundaries>>

Current == [trie |-> keywordTrieDict, terms |-> termsInTrie, threw |-> FALSE]

AddKeywordsFromDict(keywordDict) ==
    Bulk("addKeywordsFromDict", keywordDict,
         addKeywordsFromDict(Current, caseSensitive, keywordDict, 1))

RemoveKeywordsFromDict(keywordDict) ==
    Bulk("removeKeywordsFromDict", keywordDict,
         removeKeywordsFromDict(Current, caseSensitive, keywordDict, 1))

AddKeywordsFromList(keywordList) ==
    Bulk("addKeywordsFromList", keywordList,
         addKeywordsFromList(Current, caseSensitive, keywordList))

RemoveKeywordsFromList(keywordList) ==
    Bulk("removeKeywordsFromList", keywordList,
         removeKeywordsFromList(Current, caseSensitive, keywordList))

Return ==
    /\ op # "idle"
    /\ op' = "idle"
    /\ args' = <<>>
    /\ ret' = <<>>
    /\ UNCHANGED <<keywordTrieDict, termsInTrie, caseSensitive, nonWordBoundaries>>

Next ==
    \/ \E k \in KeywordInputs, c \in CleanNameInputs : AddKeyword(k, c)
    \/ \E k \in KeywordInputs : RemoveKeyword(k)
    \/ \E k \in KeywordInputs : GetKeyword(k)
    \/ \E s \in SentenceInputs, m \in MaxCostInputs : ExtractKeywords(s, TRUE, m)
    \/ \E s \in SentenceInputs, m \in MaxCostInputs : ReplaceKeywords(s, m)
    \/ Return

Spec == Init /\ [][Next]_vars

(***************************************************************************)
(* The trie operations alone, with keywords that share prefixes ('a',      *)
(* 'ab', 'ac'), differ in letter casing only ('ab', 'aB') or hold a        *)
(* character outside the basic plane.                                      *)
(***************************************************************************)
Emoji == <<HighSurrogate, LowSurrogate>>

TrieKeywordInputs ==
    {Chars(""), Chars("a"), Chars("ab"), Chars("aB"), Chars("ac"), Emoji}
KeywordListInputs ==
    { Array(<<>>), Array(<<Chars("a"), Chars("ab")>>),
      Array(<<Chars("ac"), Chars("ac")>>), Array(<<Chars(""), Chars("aB")>>),
      NotAnArray }
KeywordDictInputs ==
    { << <<Chars("X"), Array(<<Chars("a"), Chars("ab")>>)>> >>,
      << <<Chars("X"), Array(<<Chars("aB")>>)>>,
         <<Chars("Y"), Array(<<Chars("ab"), Chars("ac")>>)>> >>,
      << <<Chars("Y"), Array(<<>>)>>, <<Chars("X"), Array(<<Chars(""), Chars("a")>>)>>,
         <<Chars("Z"), NotAnArray>>, <<Chars("W"), Array(<<Chars("ab")>>)>> >> }

TrieNext ==
    \/ \E k \in TrieKeywordInputs, c \in CleanNameInputs : AddKeyword(k, c)
    \/ \E k \in TrieKeywordInputs : RemoveKeyword(k)
    \/ \E k \in TrieKeywordInputs : GetKeyword(k)
    \/ \E k \in TrieKeywordInputs : Contains(k)
    \/ Length
    \/ GetAllKeywords
    \/ \E d \in KeywordDictInputs : AddKeywordsFromDict(d)
    \/ \E d \in KeywordDictInputs : RemoveKeywordsFromDict(d)
    \/ \E l \in KeywordListInputs : AddKeywordsFromList(l)
    \/ \E l \in KeywordListInputs : RemoveKeywordsFromList(l)
    \/ Return

TrieSpec == Init /\ [][TrieNext]_vars

(***************************************************************************)
(* Properties of the scanner                                               *)
(***************************************************************************)
IsBoundaryAt(sentence, i) == charAt(sentence, i) \notin nonWordBoundaries

ExtractDone == op = "extractKeywords" /\ ~ret.threw
ReplaceDone == op = "replaceKeywords" /\ ~ret.threw

\* C1: with maxCost = 0 every span [start, end) reported by extractKeywords
\* begins at offset 0 or just after a boundary character, and ends at the
\* end of the sentence or just before a boundary character; a keyword
\* followed at once by a further word character yields no match.
C1_WholeWordMatch ==
    (ExtractDone /\ args[3] = 0) =>
        \A i \in 1..Len(ret.value) :
            LET start == ret.value[i][2]
                end   == ret.value[i][3]
            IN /\ (start = 0 \/ IsBoundaryAt(args[1], start - 1))
               /\ (end = Len(args[1]) \/ IsBoundaryAt(args[1], end))

\* the sentence in which the spans of `matches`, from the i-th on, are
\* replaced by their labels and the rest, from offset pos on, is copied
RECURSIVE SubstituteFrom(_, _, _, _)
SubstituteFrom(sentence, matches, i, pos) ==
    IF i > Len(matches)
    THEN sliceFrom(sentence, pos)
    ELSE slice(sentence, pos, matches[i][2]) \o matches[i][1]
             \o SubstituteFrom(sentence, matches, i + 1, matches[i][3])

\* C2: replaceKeywords(sentence, maxCost) is the sentence in which exactly
\* the spans returned by extractKeywords(sentence, true, maxCost) are
\* replaced by their labels, every other character copied unchanged (and
\* one call fails exactly when the other does).  Stated for exact matching,
\* maxCost = 0, where no approximate lookup takes part.
C2_ReplaceMirrorsExtract ==
    (op = "extractKeywords" /\ args[3] = 0) =>
        LET r == replaceKeywords(keywordTrieDict, caseSensitive,
                                 nonWordBoundaries, args[1], args[3])
        IN /\ r.threw = ret.threw
           /\ ~ret.threw => r.value = SubstituteFrom(args[1], ret.value, 1, 0)

\* the stored keywords: the paths of the nodes that hold the marker
StoredKeywords == {k \in DOMAIN keywordTrieDict : MapHas(keywordTrieDict, k, _keyword)}

\* the sentence the scanner reads: lower-cased unless case-sensitive
Scanned(sentence) == Normalize(caseSensitive, sentence)

\* keyword k occurs in the scanned sentence at offset p
OccursAt(sentence, k, p) ==
    /\ p >= 0
    /\ p + Len(k) <= Len(sentence)
    /\ slice(Scanned(sentence), p, p + Len(k)) = k

\* ... as a whole word: no word character just before or just after it
WholeWordAt(sentence, k, p) ==
    /\ OccursAt(sentence, k, p)
    /\ (p = 0 \/ IsBoundaryAt(sentence, p - 1))
    /\ (p + Len(k) = Len(sentence) \/ IsBoundaryAt(sentence, p + Len(k)))

EndsWith(s, t) == Len(t) <= Len(s) /\ SubSeq(s, Len(s) - Len(t) + 1, Len(s)) = t

\* C3: with maxCost = 0, a stored keyword (of non-empty label) whose
\* whole-word occurrence ends with the last character of the sentence is
\* matched: extractKeywords reports it with end = sentence length, and the
\* result of replaceKeywords ends with its label.
C3_EndOfSentenceMatch ==
    \A k \in StoredKeywords :
        LET label == keywordTrieDict[k].clean
            sentence == args[1]
        IN /\ (/\ op = "extractKeywords" /\ args[3] = 0
               /\ Truthy(label)
               /\ WholeWordAt(sentence, k, Len(sentence) - Len(k)))
              => /\ ~ret.threw
                 /\ \E i \in 1..Len(ret.value) :
                        ret.value[i] = <<label, Len(sentence) - Len(k), Len(sentence)>>
           /\ (/\ op = "replaceKeywords" /\ args[2] = 0
               /\ Truthy(label)
               /\ WholeWordAt(sentence, k, Len(sentence) - Len(k)))
              => /\ ~ret.threw
                 /\ EndsWith(ret.value, label)

StrictPrefix(k1, k2) == IsPrefix(k1, k2) /\ k1 # k2

\* k is the longest stored keyword that has a whole-word occurrence at p
LongestWholeWordAt(sentence, k, p) ==
    /\ k \in StoredKeywords
    /\ WholeWordAt(sentence, k, p)
    /\ \A k2 \in StoredKeywords :
           StrictPrefix(k, k2) => ~WholeWordAt(sentence, k2, p)

\* C4: with maxCost = 0, when stored keywords K1 and K2, K1 a strict prefix
\* of K2, are in the trie and K1 has a whole-word occurrence at the start
\* of the sentence, extractKeywords reports exactly one match starting
\* there: K2's label ending at |K2| when K2 has a whole-word occurrence
\* there too, else K1's label ending at |K1|.
C4_LongestMatchWins ==
    (op = "extractKeywords" /\ args[3] = 0) =>
        \A k1, k2 \in StoredKeywords :
            (/\ StrictPrefix(k1, k2)
             /\ \A k \in StoredKeywords : Truthy(keywordTrieDict[k].clean)
             /\ WholeWordAt(args[1], k1, 0))
            => /\ ~ret.threw
               /\ ret.value # <<>>
               /\ \E k \in StoredKeywords :
                      /\ LongestWholeWordAt(args[1], k, 0)
                      /\ ret.value[1] = <<keywordTrieDict[k].clean, 0, Len(k)>>
               /\ \A i \in 2..Len(ret.value) : ret.value[i][2] # 0

\* C5: for every trie, sentence and maxCost, extractKeywords and
\* replaceKeywords return a result: an approximate search that yields no
\* candidate does not make the call fail.
C5_NoCandidateIsNoError ==
    op \in {"extractKeywords", "replaceKeywords"} => ~ret.threw

(***************************************************************************)
(* The same object driven with the dictionaries and sentences of the       *)
(* repository's fuzzy-matching tests (unnamed/part_000,                     *)
(* test/fuzzy-replace.test.ts).                                            *)
(***************************************************************************)
MaxTestCost == 2

Telegram == Chars("Telegram")
Messenger == Chars("Messenger")
Keyword == Chars("keyword")
KeywordWithManyWords == Chars("keyword with many words")
MadeOfMultipleWords == Chars("made of multiple words")

TelegamSentence == Chars("Hello, do you have Telegam?")
KeywrdSentence == Chars("This sentence contains a keywrd with many woords")
MaadeSentence == Chars("this sentence contains a keyword maade of multple words")

TestDictionary ==
    { <<Telegram, Messenger>>, <<Keyword, Null>>,
      <<KeywordWithManyWords, Null>>, <<MadeOfMultipleWords, Null>> }
TestSentences == {TelegamSentence, KeywrdSentence, MaadeSentence}
TestCostInputs == 0..MaxTestCost

TestNext ==
    \/ \E e \in TestDictionary : AddKeyword(e[1], e[2])
    \/ \E s \in TestSentences, m \in TestCostInputs : ExtractKeywords(s, TRUE, m)
    \/ \E s \in TestSentences, m \in TestCostInputs : ReplaceKeywords(s, m)
    \/ Return

TestSpec == Init /\ [][TestNext]_vars

\* the trie holds exactly the keywords of `dictionary` (pairs keyword, label)
HoldsExactly(dictionary) ==
    /\ termsInTrie = Cardinality(dictionary)
    /\ \A e \in dictionary :
           _getItem(keywordTrieDict, caseSensitive, e[1]) = e[2]

\* C6: with 'Telegram' -> 'Messenger' stored (case-insensitive object),
\* extractKeywords('Hello, do you have Telegam?', true, 1) returns
\* [['Messenger', 19, 26]] and replaceKeywords of the same sentence returns
\* 'Hello, do you have Messenger?'.
C6_FuzzyWithinBudgetOne ==
    (~caseSensitive /\ HoldsExactly({<<Telegram, Messenger>>})) =>
        /\ (op = "extractKeywords" /\ args = <<TelegamSentence, TRUE, 1>>)
           => /\ ~ret.threw
              /\ ret.value = << <<Messenger, 19, 26>> >>
        /\ (op = "replaceKeywords" /\ args = <<TelegamSentence, 1>>)
           => /\ ~ret.threw
              /\ ret.value = Chars("Hello, do you have Messenger?")

\* C7: with 'keyword' and 'keyword with many words' stored, scanning
\* 'This sentence contains a keywrd with many woords' with maxCost = 2
\* reports only the longer keyword, span [25, 48], and with maxCost = 1
\* only the shorter one, span [25, 31].
C7_LongestMatchShrinkingBudget ==
    (/\ ~caseSensitive
     /\ HoldsExactly({<<Keyword, Keyword>>,
                      <<KeywordWithManyWords, KeywordWithManyWords>>})
     /\ op = "extractKeywords") =>
        /\ args = <<KeywrdSentence, TRUE, 2>>
           => /\ ~ret.threw
              /\ ret.value = << <<KeywordWithManyWords, 25, 48>> >>
        /\ args = <<KeywrdSentence, TRUE, 1>>
           => /\ ~ret.threw
              /\ ret.value = << <<Keyword, 25, 31>> >>

\* C8: the budget is shared by the approximate lookups of one attempt: with
\* 'made of multiple words' stored, the occurrence 'maade of multple words'
\* (one typo in each of two words) is matched with maxCost = 2, span
\* [33, 55], and is not matched with maxCost = 1.
C8_BudgetSharedAcrossLookups ==
    (/\ ~caseSensitive
     /\ HoldsExactly({<<MadeOfMultipleWords, MadeOfMultipleWords>>})
     /\ op = "extractKeywords") =>
        /\ args = <<MaadeSentence, TRUE, 2>>
           => /\ ~ret.threw
              /\ ret.value = << <<MadeOfMultipleWords, 33, 55>> >>
        /\ args = <<MaadeSentence, TRUE, 1>>
           => /\ ~ret.threw
              /\ ret.value = <<>>

\* C9: every match attempt of extractKeywords that starts at a new
\* sequenceStartPos inside the sentence starts with the full budget:
\* currCost = maxCost, whether the attempt before it emitted a match or was
\* abandoned.  Stated for dictionaries whose labels are all non-empty.
C9_BudgetResetAfterEveryAttempt ==
    (ExtractDone /\ \A k \in StoredKeywords : Truthy(keywordTrieDict[k].clean)) =>
        \A i \in 1..Len(ret.attempts) :
            ret.attempts[i][1] < Len(args[1]) => ret.attempts[i][2] = args[3]

(***************************************************************************)
(* Properties of the trie operations                                       *)
(***************************************************************************)
\* the label addKeyword(keyword, cleanName) stores: the keyword itself when
\* no clean name is given
LabelOf(keyword, cleanName) == IF cleanName = Null THEN keyword ELSE cleanName

\* C10: addKeyword(K, L2) when K is already stored returns false, leaves the
\* term count unchanged, and afterwards getKeyword(K) returns L2.
C10_ReinsertionUpdatesLabel ==
    [][(/\ op' = "addKeyword"
        /\ contains(keywordTrieDict, caseSensitive, args'[1]))
       => /\ ret' = FALSE
          /\ termsInTrie' = termsInTrie
          /\ _getItem(keywordTrieDict', caseSensitive, args'[1])
                 = LabelOf(args'[1], args'[2])]_vars


(***************************************************************************)
(* Properties of the trie operations (checked under TrieSpec)              *)
(***************************************************************************)
AddDone == op = "addKeyword"
RemoveDone == op = "removeKeyword"

\* the inputs that are the keyword k in some letter casing
Casings(k) ==
    IF caseSensitive THEN {k}
    ELSE {w \in TrieKeywordInputs : toLowerCase(w) = toLowerCase(k)}

\* C11: Insert/delete round trip.  After addKeyword(K) with K non-empty,
\* contains(K) is true, and after removeKeyword(K) contains(K) is false; in
\* case-insensitive mode the same holds for K written in any letter casing.
C11_InsertDeleteRoundTrip ==
    /\ (AddDone /\ args[1] # <<>>) =>
           \A w \in Casings(args[1]) : contains(keywordTrieDict, caseSensitive, w)
    /\ (RemoveDone /\ args[1] # <<>>) =>
           \A w \in Casings(args[1]) : ~contains(keywordTrieDict, caseSensitive, w)

\* C12: Deletion leaves every other keyword intact.  When removeKeyword(K)
\* succeeds, every other keyword stored before it is still stored with the
\* same label, and contains and getKeyword answer for it as they did before;
\* whether it is a strict prefix of K, an extension of K, or shares a proper
\* prefix with K and then diverges.
C12_DeletionKeepsOthers ==
    [][(op' = "removeKeyword" /\ ret' = TRUE) =>
        \A p \in StoredKeywords :
            TermOf(p) # Normalize(caseSensitive, args'[1]) =>
                /\ p \in DOMAIN keywordTrieDict'
                /\ MapHas(keywordTrieDict', p, _keyword)
                /\ keywordTrieDict'[p].clean = keywordTrieDict[p].clean
                /\ contains(keywordTrieDict', caseSensitive, TermOf(p))
                       = contains(keywordTrieDict, caseSensitive, TermOf(p))
                /\ _getItem(keywordTrieDict', caseSensitive, TermOf(p))
                       = _getItem(keywordTrieDict, caseSensitive, TermOf(p))]_vars

\* 'ab' was removed and 'ac', which shares the node 'a' with it, is contained
C12_Witness ==
    /\ RemoveDone /\ ret = TRUE /\ args[1] = Chars("ab")
    /\ contains(keywordTrieDict, TRUE, Chars("ac"))
    /\ _getItem(keywordTrieDict, TRUE, Chars("ac")) = Chars("X")

\* the nodes every key of whose path is a key of the Map above it
Reachable(trie) ==
    {p \in DOMAIN trie :
        \A i \in 1..Len(p) :
            /\ SubSeq(p, 1, i - 1) \in DOMAIN trie
            /\ MapHas(trie, SubSeq(p, 1, i - 1), p[i])}

TerminalMarkers == {p \in Reachable(keywordTrieDict) : MapHas(keywordTrieDict, p, _keyword)}

\* the path of keyword k from the root
PathOf(k) == CodePoints(Normalize(caseSensitive, k))

TermCountInvariant ==
    /\ termsInTrie = Cardinality(TerminalMarkers)
    /\ termsInTrie = Cardinality({TermOf(p) : p \in TerminalMarkers})
    /\ termsInTrie = Cardinality(DOMAIN getAllKeywords(keywordTrieDict))
    /\ termsInTrie >= 0
    /\ (op = "length" => ret = Cardinality(TerminalMarkers))

\* C13: Term-count invariant.  After any sequence of addKeyword,
\* removeKeyword and the bulk operations, length() is the number of terminal
\* markers reachable from the root, which is the number of distinct
\* normalized keywords stored; it is never negative; inserting a keyword
\* that is stored and deleting one that is not leave it unchanged.
C13_TermCount ==
    /\ []TermCountInvariant
    /\ [][/\ (op' = "addKeyword" /\ PathOf(args'[1]) \in TerminalMarkers)
                 => termsInTrie' = termsInTrie
          /\ (op' = "removeKeyword" /\ PathOf(args'[1]) \notin TerminalMarkers)
                 => termsInTrie' = termsInTrie]_vars

\* a stored keyword was inserted again while two keywords are stored
C13_Witness ==
    /\ AddDone /\ ret = FALSE /\ args[1] # <<>>
    /\ termsInTrie = 2 /\ Cardinality(TerminalMarkers) = 2

\* the stored keywords with their labels
Survivors(trie) ==
    {<<TermOf(p), trie[p].clean>> : p \in {q \in Reachable(trie) : MapHas(trie, q, _keyword)}}

\* every order in which the elements of S can be inserted
Orders(S) ==
    {f \in [1..Cardinality(S) -> S] : \A i, j \in 1..Cardinality(S) : i # j => f[i] # f[j]}

\* the trie addKeyword builds from pairs <<keyword, label>>, from empty
RECURSIVE InsertAll(_, _, _, _)
InsertAll(trie, cs, pairs, i) ==
    IF i > Len(pairs)
    THEN trie
    ELSE Bind(_setItem(trie, 0, cs, pairs[i][1], pairs[i][2]), LAMBDA r :
              InsertAll(r.trie, cs, pairs, i + 1))

\* nodes, edges and labels, whatever the order of the keys of a Map
Unordered(trie) ==
    [p \in DOMAIN trie |-> [keys |-> Range(trie[p].keys), clean |-> trie[p].clean]]

RebuiltSentences ==
    {Chars("a"), Chars("aB ac"), Chars("a ab"), Chars("abc")}

Removed == op \in {"removeKeyword", "removeKeywordsFromDict", "removeKeywordsFromList"}

\* in every state the structure is compared; the extractions are compared in
\* the states a removal has just produced
SameAsRebuilt ==
    \A pairs \in Orders(Survivors(keywordTrieDict)) :
        LET rebuilt == InsertAll(EmptyTrie, caseSensitive, pairs, 1)
        IN /\ Unordered(keywordTrieDict) = Unordered(rebuilt)
           /\ Removed =>
                \A sentence \in RebuiltSentences :
                  LET one == extractKeywords(keywordTrieDict, caseSensitive,
                                             nonWordBoundaries, sentence, TRUE, 0)
                      two == extractKeywords(rebuilt, caseSensitive,
                                             nonWordBoundaries, sentence, TRUE, 0)
                  IN one.threw = two.threw /\ one.value = two.value

\* C14: Deletion is the exact inverse of insertion.  After any insertions
\* and removals the trie has the nodes, edges and terminal labels of the
\* trie built by inserting only the keywords that remain (no node without
\* a marker below it is left behind), and extractKeywords returns the same
\* result on both for every sentence; a successful removeKeyword(K) takes
\* exactly K out of the keywords that remain.
C14_DeletionInvertsInsertion ==
    /\ []SameAsRebuilt
    /\ [][(op' = "removeKeyword" /\ ret' = TRUE) =>
            /\ \E e \in Survivors(keywordTrieDict) :
                   /\ e[1] = Normalize(caseSensitive, args'[1])
                   /\ Survivors(keywordTrieDict') = Survivors(keywordTrieDict) \ {e}]_vars

\* 'ab' was removed while 'a' remains: the node of 'ab' is pruned, 'a' is kept
C14_Witness ==
    /\ RemoveDone /\ ret = TRUE /\ args[1] = Chars("ab")
    /\ <<"a">> \in DOMAIN keywordTrieDict
    /\ <<"a", "b">> \notin DOMAIN keywordTrieDict
    /\ termsInTrie = 1

\* the call just made returned false and changed neither the trie nor the count
NoOp ==
    /\ ret' = FALSE
    /\ keywordTrieDict' = keywordTrieDict
    /\ termsInTrie' = termsInTrie

\* C15: Failed mutations are no-ops that return false.  addKeyword('')
\* returns false; removeKeyword(K) returns false when K is empty, when the
\* walk breaks before K is consumed, or when K ends on a node without a
\* marker; the trie and the term count are then unchanged.
C15_FailedMutationsAreNoOps ==
    [][/\ (op' = "addKeyword" /\ args'[1] = <<>>) => NoOp
       /\ (op' = "removeKeyword" /\ PathOf(args'[1]) \notin TerminalMarkers) => NoOp]_vars

\* removeKeyword('a') was refused while 'ab' is stored and 'a' is not
C15_Witness ==
    /\ RemoveDone /\ ret = FALSE /\ args[1] = Chars("a")
    /\ TerminalMarkers = {<<"a", "b">>}
    /\ termsInTrie = 1

\* the words the accessors are asked about: the keywords, an extension of
\* 'ab' and a word that shares nothing with them
AccessorProbes == TrieKeywordInputs \cup {Chars("abc"), Chars("b")}

\* C16: The read accessors describe exactly the stored set.  getAllKeywords()
\* has one entry per stored keyword, keyed by its normalized form and valued
\* by its label; contains(w) is true and getKeyword(w) returns that label
\* exactly when the normalized w is a key of getAllKeywords(), so for a
\* strict prefix or extension of a stored keyword that is not itself stored
\* contains is false and getKeyword is undefined.
C16_AccessorsDescribeStoredSet ==
    LET all == getAllKeywords(keywordTrieDict)
    IN /\ DOMAIN all = {TermOf(p) : p \in TerminalMarkers}
       /\ \A p \in TerminalMarkers : all[TermOf(p)] = keywordTrieDict[p].clean
       /\ \A w \in AccessorProbes :
              LET key == Normalize(caseSensitive, w)
              IN IF key \in DOMAIN all
                 THEN /\ contains(keywordTrieDict, caseSensitive, w)
                      /\ _getItem(keywordTrieDict, caseSensitive, w) = all[key]
                 ELSE /\ ~contains(keywordTrieDict, caseSensitive, w)
                      /\ _getItem(keywordTrieDict, caseSensitive, w) = Undefined

(***************************************************************************)
(* The scanner alone: keywords are inserted and sentences are scanned with *)
(* span information.                                                       *)
(***************************************************************************)
ScanNext ==
    \/ \E k \in KeywordInputs, c \in CleanNameInputs : AddKeyword(k, c)
    \/ \E s \in SentenceInputs, m \in MaxCostInputs : ExtractKeywords(s, TRUE, m)
    \/ Return

ScanSpec == Init /\ [][ScanNext]_vars

(***************************************************************************)
(* Properties of the spans and of the rewritten sentence                   *)
(***************************************************************************)
\* extractKeywords(sentence, true, 0) has returned
ExactSpansDone == ExtractDone /\ args[2] = TRUE /\ args[3] = 0

\* the record <<label, start, end>> names a stored keyword of the sentence
SpanIsStoredKeyword(sentence, r) ==
    /\ 0 <= r[2] /\ r[2] < r[3] /\ r[3] <= Len(sentence)
    /\ LET path == PathOf(slice(sentence, r[2], r[3]))
       IN /\ path \in TerminalMarkers
          /\ keywordTrieDict[path].clean = r[1]

\* C17: Span correctness for exact matching.  With maxCost = 0, every record
\* (label, start, end) returned by extractKeywords(sentence, true) has
\* 0 <= start < end <= sentence length, and sentence[start, end) (lower-cased
\* when case-insensitive) is a stored keyword whose label is the one reported.
C17_SpanCorrectness ==
    ExactSpansDone =>
        \A i \in 1..Len(ret.value) : SpanIsStoredKeyword(args[1], ret.value[i])

\* C18: Matches are ordered and do not overlap.  For every trie, sentence
\* and maxCost, the records returned by extractKeywords(sentence, true,
\* maxCost) have start < end, and each record ends at or before the start of
\* the next, the record of the end-of-sentence check included.
C18_OrderedNonOverlapping ==
    (ExtractDone /\ args[2] = TRUE) =>
        /\ \A i \in 1..Len(ret.value) : ret.value[i][2] < ret.value[i][3]
        /\ \A i \in 1..(Len(ret.value) - 1) : ret.value[i][3] <= ret.value[i + 1][2]

\* two records were returned, the second by the end-of-sentence check
C18_Witness ==
    /\ ExtractDone /\ args[2] = TRUE
    /\ Len(ret.value) = 2
    /\ ret.value[2][3] = Len(args[1])

StoredLabels == {keywordTrieDict[p].clean : p \in TerminalMarkers}

\* out is the sentence with some disjoint non-empty stretches each replaced
\* by a stored label, and every other character kept where and as it was
RECURSIVE Preserves(_, _)
Preserves(sentence, out) ==
    IF sentence = <<>>
    THEN out = <<>>
    ELSE \/ /\ out # <<>>
            /\ Head(out) = Head(sentence)
            /\ Preserves(Tail(sentence), Tail(out))
         \/ \E label \in StoredLabels, n \in 1..Len(sentence) :
                /\ IsPrefix(label, out)
                /\ Preserves(SubSeq(sentence, n + 1, Len(sentence)),
                             SubSeq(out, Len(label) + 1, Len(out)))

\* C19: replaceKeywords preserves everything that is not a replaced
\* occurrence.  With maxCost = 0 the call returns the sentence with some
\* occurrences replaced by stored labels and every other character exactly
\* once, in its place and in its original letter casing, the boundary
\* character after a replaced occurrence included; with no keyword stored
\* the output is the input.
C19_ReplacePreservesTheRest ==
    (op = "replaceKeywords" /\ args[2] = 0) =>
        /\ ~ret.threw
        /\ Preserves(args[1], ret.value)

(***************************************************************************)
(* Letter casing: keywords and sentences that differ in casing only        *)
(***************************************************************************)
CaseKeywordInputs == {Chars("ab"), Chars("aB"), Chars("B")}
CaseSentenceInputs ==
    {Chars("ab"), Chars("aB"), Chars("Ab"), Chars("AB b"), Chars("b ab"),
     Chars("B aB"), Chars("a b"), Chars("Abb")}

CaseNext ==
    \/ \E k \in CaseKeywordInputs, c \in CleanNameInputs : AddKeyword(k, c)
    \/ \E s \in CaseSentenceInputs, m \in MaxCostInputs : ExtractKeywords(s, TRUE, m)
    \/ Return

CaseSpec == Init /\ [][CaseNext]_vars

\* a letter in its two casings; any other character as it is
BothCases(c) ==
    IF c \in Range(UpperLetters)
    THEN {c, LowerLetters[CHOOSE i \in 1..26 : UpperLetters[i] = c]}
    ELSE IF c \in Range(LowerLetters)
    THEN {c, UpperLetters[CHOOSE i \in 1..26 : LowerLetters[i] = c]}
    ELSE {c}

\* the strings that differ from s in letter casing only
RECURSIVE CaseVariants(_)
CaseVariants(s) ==
    IF s = <<>> THEN {<<>>}
    ELSE {<<c>> \o v : c \in BothCases(Head(s)), v \in CaseVariants(Tail(s))}

\* the sequences of entries <<keyword, label>> that differ from entries in
\* the casing of the keywords only
RECURSIVE EntryVariants(_)
EntryVariants(entries) ==
    IF entries = <<>> THEN {<<>>}
    ELSE {<< <<k, Head(entries)[2]>> >> \o rest :
            k \in CaseVariants(Head(entries)[1]), rest \in EntryVariants(Tail(entries))}

SameResult(one, two) == one.threw = two.threw /\ one.value = two.value

\* C20: Case-sensitivity flag for extraction.  In case-insensitive mode
\* extractKeywords returns the same labels and spans for every sentence that
\* differs from the given one in letter casing only, and on every trie built
\* from the same keywords and labels inserted in another casing; in
\* case-sensitive mode with maxCost = 0 every span returned is an occurrence
\* of a stored keyword in identical casing.
C20_CaseSensitivityFlag ==
    op = "extractKeywords" =>
        /\ ~caseSensitive =>
            /\ \A sentence \in CaseVariants(args[1]) :
                   SameResult(extractKeywords(keywordTrieDict, caseSensitive,
                                  nonWordBoundaries, sentence, args[2], args[3]), ret)
            /\ \A entries \in EntryVariants(_retrieveAllKeywords(keywordTrieDict, Root, 1)) :
                   LET other == InsertAll(EmptyTrie, caseSensitive, entries, 1)
                   IN /\ other = keywordTrieDict
                      /\ SameResult(extractKeywords(other, caseSensitive,
                                        nonWordBoundaries, args[1], args[2], args[3]), ret)
        /\ (caseSensitive /\ args[3] = 0) =>
            /\ ~ret.threw
            /\ \A i \in 1..Len(ret.value) :
                   LET r == ret.value[i]
                       path == CodePoints(slice(args[1], r[2], r[3]))
                   IN /\ path \in TerminalMarkers
                      /\ keywordTrieDict[path].clean = r[1]

\* case-insensitive: the keyword inserted as 'aB' is found in 'Ab'
C20_Witness ==
    /\ ~caseSensitive /\ ExtractDone
    /\ args[1] = Chars("Ab")
    /\ ret.value = << <<Chars("aB"), 0, 2>> >>

(***************************************************************************)
(* The configuration of the non-word boundaries                            *)
(***************************************************************************)
\* this._nonWordBoundaries = nonWordBoundaries
SetNonWordBoundaries(chars) ==
    /\ op = "idle"
    /\ nonWordBoundaries' = chars
    /\ op' = "setNonWordBoundaries"
    /\ args' = <<chars>>
    /\ ret' = Undefined
    /\ UNCHANGED <<keywordTrieDict, termsInTrie, caseSensitive>>

\* this._nonWordBoundaries.add(nonWordBoundary)
AddNonWordBoundary(char) ==
    /\ op = "idle"
    /\ nonWordBoundaries' = nonWordBoundaries \cup {char}
    /\ op' = "addNonWordBoundary"
    /\ args' = <<char>>
    /\ ret' = Undefined
    /\ UNCHANGED <<keywordTrieDict, termsInTrie, caseSensitive>>

BoundaryCharInputs == {"/"}
BoundarySetInputs ==
    {DefaultNonWordBoundaries \cup {"/"}, Range(LowerLetters) \cup Range(UpperLetters)}
BoundarySentenceInputs ==
    {Chars("a B/a"), Chars("a B/"), Chars("a B"), Chars("ab/a"), Chars("ab/"),
     Chars("a/B"), Chars("a_B a")}

BoundaryNext ==
    \/ \E k \in KeywordInputs, c \in CleanNameInputs : AddKeyword(k, c)
    \/ \E chars \in BoundarySetInputs : SetNonWordBoundaries(chars)
    \/ \E char \in BoundaryCharInputs : AddNonWordBoundary(char)
    \/ \E s \in BoundarySentenceInputs, m \in MaxCostInputs : ExtractKeywords(s, TRUE, m)
    \/ Return

BoundarySpec == Init /\ [][BoundaryNext]_vars

\* C21: Non-word-boundary configuration.  A character that was added with
\* addNonWordBoundary, or given to setNonWordBoundaries, is inside a word
\* and never ends a match: with maxCost = 0 no span returned by
\* extractKeywords is followed by such a character ('a B' is not reported
\* in 'a B/a' once '/' is configured).
C21_ConfiguredCharNeverEndsMatch ==
    ExactSpansDone =>
        \A i \in 1..Len(ret.value) :
            LET end == ret.value[i][3]
            IN end < Len(args[1]) =>
                   charAt(Normalize(caseSensitive, args[1]), end)
                       \notin (nonWordBoundaries \ DefaultNonWordBoundaries)

(***************************************************************************)
(* Replacing, then scanning again                                          *)
(***************************************************************************)
\* every label is itself stored as a keyword that maps to itself
LabelsAreKeywords ==
    \A p \in TerminalMarkers :
        LET label == keywordTrieDict[p].clean
        IN /\ Truthy(label)
           /\ PathOf(label) \in TerminalMarkers
           /\ keywordTrieDict[PathOf(label)].clean = label

LabelsExtracted(sentence) ==
    extractKeywords(keywordTrieDict, caseSensitive, nonWordBoundaries,
                    sentence, FALSE, 0)

\* C22: Replace/extract round trip without fuzzy errors.  When every label
\* is a keyword that maps to itself, with maxCost = 0, scanning the output
\* of replaceKeywords(sentence) yields the labels extractKeywords(sentence)
\* yields, in the same order, and replaceKeywords applied to its own output
\* returns it unchanged.
C22_ReplaceExtractRoundTrip ==
    (ReplaceDone /\ args[2] = 0 /\ LabelsAreKeywords) =>
        /\ SameResult(LabelsExtracted(ret.value), LabelsExtracted(args[1]))
        /\ SameResult(replaceKeywords(keywordTrieDict, caseSensitive,
                                      nonWordBoundaries, ret.value, 0), ret)

\* ---------------------------------------------------------------------------
\* Bulk operations

DictOps == {"addKeywordsFromDict", "removeKeywordsFromDict"}
ListOps == {"addKeywordsFromList", "removeKeywordsFromList"}
AddingOps == {"addKeywordsFromDict", "addKeywordsFromList"}

\* the entries of a dictionary in front of the first value that is not a list
RECURSIVE EntriesBefore(_, _)
EntriesBefore(keywordDict, i) ==
    IF i > Len(keywordDict) \/ ~keywordDict[i][2].isArray
    THEN <<>>
    ELSE <<keywordDict[i]>> \o EntriesBefore(keywordDict, i + 1)

\* one call <<keyword, label>> for each element, in order
RECURSIVE CallsOfList(_, _, _)
CallsOfList(keywords, cleanName, i) ==
    IF i > Len(keywords)
    THEN <<>>
    ELSE << <<keywords[i], cleanName>> >> \o CallsOfList(keywords, cleanName, i + 1)

RECURSIVE CallsOfDict(_, _)
CallsOfDict(entries, i) ==
    IF i > Len(entries)
    THEN <<>>
    ELSE CallsOfList(entries[i][2].items, entries[i][1], 1)
             \o CallsOfDict(entries, i + 1)

CallsOf(name, input) ==
    IF name \in DictOps
    THEN CallsOfDict(EntriesBefore(input, 1), 1)
    ELSE IF input.isArray THEN CallsOfList(input.items, Null, 1) ELSE <<>>

HasNonList(name, input) ==
    IF name \in DictOps
    THEN \E i \in 1..Len(input) : ~input[i][2].isArray
    ELSE ~input.isArray

\* addKeyword(keyword, label) or removeKeyword(keyword), call after call
RECURSIVE OneByOne(_, _, _, _, _, _)
OneByOne(trie, terms, cs, adding, calls, i) ==
    IF i > Len(calls)
    THEN [trie |-> trie, terms |-> terms]
    ELSE Bind(IF adding
              THEN _setItem(trie, terms, cs, calls[i][1], calls[i][2])
              ELSE _deleteItem(trie, terms, cs, calls[i][1]),
              LAMBDA r : OneByOne(r.trie, r.terms, cs, adding, calls, i + 1))

WithoutEmpty(calls) == SelectSeq(calls, LAMBDA c : c[1] # <<>>)

BulkIs(calls) ==
    LET r == OneByOne(keywordTrieDict, termsInTrie, caseSensitive,
                      op' \in AddingOps, calls, 1)
    IN keywordTrieDict' = r.trie /\ termsInTrie' = r.terms

\* C23: Bulk operations validate and do not roll back.  A bulk call raises
\* an error exactly when it meets a value that is not a list (the value of a
\* label for the dictionary variants, the argument for the list variants);
\* the keywords of the entries in front of the offending one stay inserted
\* (or removed); an empty keyword is skipped without stopping the call; and
\* the trie and the term count are those of addKeyword(keyword, label) /
\* removeKeyword(keyword) called for each element in order.
C23_BulkValidatesWithoutRollback ==
    [][op' \in DictOps \cup ListOps =>
          /\ (ret' = ErrorThrown) = HasNonList(op', args'[1])
          /\ BulkIs(CallsOf(op', args'[1]))
          /\ BulkIs(WithoutEmpty(CallsOf(op', args'[1])))]_vars

\* addKeywordsFromDict threw at its third entry, and the keyword 'a' of its
\* second entry, behind an empty keyword, is stored under that entry's label
C23_Witness ==
    /\ op = "addKeywordsFromDict"
    /\ ret = ErrorThrown
    /\ Len(args[1]) = 4
    /\ termsInTrie = 1
    /\ _getItem(keywordTrieDict, caseSensitive, Chars("a")) = Chars("X")

(***************************************************************************)
(* Matching: insertion, extraction and replacement, exact and approximate  *)
(***************************************************************************)
MatchSentenceInputs ==
    {Chars("a"), Chars("ab"), Chars("aB"), Chars("a B"), Chars("a b"),
     Chars("ac B"), Chars("a  B"), Chars("B a"), Chars("ab a B"), Chars("b"),
     Chars(" ab "), Chars("aab")}

MatchNext ==
    \/ \E k \in KeywordInputs, c \in CleanNameInputs : AddKeyword(k, c)
    \/ \E s \in MatchSentenceInputs, sp \in BOOLEAN, m \in MaxCostInputs :
           ExtractKeywords(s, sp, m)
    \/ \E s \in MatchSentenceInputs, m \in MaxCostInputs : ReplaceKeywords(s, m)
    \/ Return

MatchSpec == Init /\ [][MatchNext]_vars

MatchingOps == {"extractKeywords", "replaceKeywords"}

\* the matching call name(a) on the given object
Matching(name, a, trie, cs, nwb) ==
    IF name = "extractKeywords"
    THEN extractKeywords(trie, cs, nwb, a[1], a[2], a[3])
    ELSE replaceKeywords(trie, cs, nwb, a[1], a[2])

RECURSIVE Distance(_, _)
Distance(a, b) ==
    IF a = <<>> THEN Len(b)
    ELSE IF b = <<>> THEN Len(a)
    ELSE Bind(Distance(Tail(a), Tail(b)), LAMBDA both :
         IF Head(a) = Head(b)
         THEN both
         ELSE Bind(Distance(Tail(a), b), LAMBDA left :
              Bind(Distance(a, Tail(b)), LAMBDA right :
                   1 + Min(both, Min(left, right)))))

\* the span of record r is within m edits of a stored keyword labelled r[1]
SpanIsNearStoredKeyword(sentence, r, m) ==
    /\ 0 <= r[2] /\ r[2] <= r[3] /\ r[3] <= Len(sentence)
    /\ \E p \in TerminalMarkers :
          /\ keywordTrieDict[p].clean = r[1]
          /\ Distance(PathOf(slice(sentence, r[2], r[3])), p) <= m

\* C25: Edit-distance bound of a reported match.  Every record (label, start,
\* end) returned by extractKeywords(sentence, true, m) spans a text
\* sentence[start, end) whose Levenshtein distance to some stored keyword
\* carrying that label is at most m; every approximate lookup, the ones at a
\* boundary character included, is given a budget of at most m and bridges
\* no more edits than that budget, which the edits bridged before it in the
\* attempt have already lowered.
C25_EditDistanceBound ==
    (ExtractDone /\ args[2] = TRUE) =>
        /\ \A i \in 1..Len(ret.value) :
               SpanIsNearStoredKeyword(args[1], ret.value[i], args[3])
        /\ \A i \in 1..Len(ret.lookups) :
               ret.lookups[i][2] <= ret.lookups[i][1] /\ ret.lookups[i][1] <= args[3]

(***************************************************************************)
(* The approximate search on its own                                       *)
(***************************************************************************)
\* [..._levensthein(word, maxCost, startNode)]: every candidate it yields
Levensthein(word, maxCost, startNode) ==
    /\ op = "idle"
    /\ startNode \in Reachable(keywordTrieDict)
    /\ ret' = _levensthein(keywordTrieDict, word, maxCost, startNode)
    /\ op' = "_levensthein"
    /\ args' = <<word, maxCost, startNode>>
    /\ UNCHANGED <<keywordTrieDict, termsInTrie, caseSensitive, nonWordBoundaries>>

LevKeywordInputs ==
    {Chars("our"), Chars("gram"), Chars("kype"), Chars("a b"), Chars("ab"), Chars("gr")}
LevWordInputs ==
    {Chars(""), Chars("r"), Chars("am"), Chars("ope"), Chars("a"), Chars("b"),
     Chars("ab"), Chars("ur"), Chars("xr")}
LevSentenceInputs ==
    {Chars("xr"), Chars("a xr"), Chars("am"), Chars("ab xr"), Chars("a  b"), Chars("ar")}
LevStartInputs ==
    {Root, Chars("o"), Chars("g"), Chars("k"), Chars("a"), Chars("a ")}

LevNext ==
    \/ \E k \in LevKeywordInputs : AddKeyword(k, Null)
    \/ \E w \in LevWordInputs, m \in TestCostInputs, n \in LevStartInputs :
           Levensthein(w, m, n)
    \/ \E s \in LevSentenceInputs, m \in TestCostInputs : ExtractKeywords(s, TRUE, m)
    \/ \E s \in LevSentenceInputs, m \in TestCostInputs : ReplaceKeywords(s, m)
    \/ Return

LevSpec == Init /\ [][LevNext]_vars

LevDone == op = "_levensthein"

\* candidate c lies depth edges below startNode, and its cost is the distance
\* between word and the characters of those edges
CandidateIsExact(c, word, startNode) ==
    /\ c[3] >= 1
    /\ Len(c[1]) = Len(startNode) + c[3]
    /\ IsPrefix(startNode, c[1])
    /\ c[1] \in Reachable(keywordTrieDict)
    /\ c[2] = Distance(word, SubSeq(c[1], Len(startNode) + 1, Len(c[1])))

\* <<keyword, start node, word>>: the word is one edit away from what is left
\* of the keyword below the start node
LevExamples ==
    { <<Chars("our"), Chars("o"), Chars("r")>>,
      <<Chars("gram"), Chars("g"), Chars("am")>>,
      <<Chars("kype"), Chars("k"), Chars("ope")>> }

\* C26: Result of the approximate search.  Every candidate (node, cost,
\* depth) yielded by _levensthein(word, maxCost, startNode) is a node reached
\* from startNode by exactly depth edges, and cost is the Levenshtein
\* distance between word and the string of those edges, for every word
\* including the empty word.  With maxCost = 1 and a single keyword path, a
\* word one insertion ('r' for 'ur'), one deletion ('am' for 'ram') or one
\* substitution ('ope' for 'ype') away from the remaining suffix yields first
\* the node at the end of the suffix, with cost 1 and the suffix length as depth.
C26_ApproximateSearchResult ==
    LevDone =>
        /\ \A i \in 1..Len(ret) : CandidateIsExact(ret[i], args[1], args[3])
        /\ \A e \in LevExamples :
               (/\ TerminalMarkers = {e[1]}
                /\ args = <<e[3], 1, e[2]>>)
               => /\ Len(ret) >= 1
                  /\ ret[1] = <<e[1], 1, Len(e[1]) - Len(e[2])>>

(***************************************************************************)
(* Letter casing in replaceKeywords                                        *)
(***************************************************************************)
ReplaceCaseKeywordInputs == {Chars("a bc"), Chars("ab"), Chars("B")}
ReplaceCaseSentenceInputs ==
    {Chars("a xc"), Chars("a xC"), Chars("A bc"), Chars("a BC"), Chars("ab"),
     Chars("Ac"), Chars("aC"), Chars("b a"), Chars("a Bx"), Chars("a bX")}

ReplaceCaseNext ==
    \/ \E k \in ReplaceCaseKeywordInputs, c \in CleanNameInputs : AddKeyword(k, c)
    \/ \E s \in ReplaceCaseSentenceInputs, m \in MaxCostInputs : ReplaceKeywords(s, m)
    \/ Return

ReplaceCaseSpec == Init /\ [][ReplaceCaseNext]_vars

\* the same outcome, up to the letter casing of the text
SameUpToCasing(one, two) ==
    /\ one.threw = two.threw
    /\ ~one.threw => toLowerCase(one.value) = toLowerCase(two.value)

\* C27: In case-insensitive mode every matching decision of replaceKeywords,
\* the approximate lookups of the outer scan and of the longest-match
\* extension loop included, is taken on the lower-cased text: for two
\* sentences that differ only in letter casing and any maxCost,
\* replaceKeywords replaces the same spans with the same labels, so the
\* results differ at most in the casing of the copied text.
C27_ReplaceIgnoresCasing ==
    (op = "replaceKeywords" /\ ~caseSensitive) =>
        \A v \in CaseVariants(args[1]) :
            SameUpToCasing(replaceKeywords(keywordTrieDict, caseSensitive,
                                           nonWordBoundaries, v, args[2]), ret)

\* ---------------------------------------------------------------------------
\* Order of the approximate search

\* the characters of the edges from node `from` down to node n
EdgesBelow(from, n) == SubSeq(n, Len(from) + 1, Len(n))

\* the last cell of the row of node n: the distance between word and the
\* edges from the start node down to n
LastCell(word, from, n) == Distance(word, EdgesBelow(from, n))

\* the smallest cell of the row of node n
SmallestCell(word, from, n) ==
    MinOf([k \in 1..(Len(word) + 1) |->
              Distance(SubSeq(word, 1, k - 1), EdgesBelow(from, n))])

Acceptable(word, maxCost, from, n) ==
    LastCell(word, from, n) <= maxCost /\ StopCrit(keywordTrieDict, n)

\* the search comes to node n: every node between the start node and n was
\* not acceptable itself and had a cell within the budget
Visited(word, maxCost, from, n) ==
    \A k \in (Len(from) + 1)..(Len(n) - 1) :
        LET a == SubSeq(n, 1, k)
        IN /\ ~Acceptable(word, maxCost, from, a)
           /\ SmallestCell(word, from, a) <= maxCost

\* the nodes below `from` at which the search stops
Stops(word, maxCost, from) ==
    {n \in Reachable(keywordTrieDict) :
        /\ Len(n) > Len(from)
        /\ IsPrefix(from, n)
        /\ Visited(word, maxCost, from, n)
        /\ Acceptable(word, maxCost, from, n)}

\* the position of key in the insertion order of the keys of node
KeyIndex(node, key) ==
    CHOOSE i \in 1..Len(keywordTrieDict[node].keys) : keywordTrieDict[node].keys[i] = key

\* p is met before q by a depth-first walk that takes the edges of every node
\* in the order they were inserted
DepthFirstBefore(p, q) ==
    \E k \in 1..Min(Len(p), Len(q)) :
        /\ SubSeq(p, 1, k - 1) = SubSeq(q, 1, k - 1)
        /\ p[k] # q[k]
        /\ KeyIndex(SubSeq(p, 1, k - 1), p[k]) < KeyIndex(SubSeq(p, 1, k - 1), q[k])

\* the lookups of an extraction that took a candidate
Taken == {i \in 1..Len(ret.lookups) : ret.lookups[i][2] >= 0}

\* C28: First-found, not best.  The approximate search visits children
\* depth-first in the order the edges were inserted and does not descend
\* below a node it has yielded; the scanner consumes only the first yielded
\* candidate, also when a later branch holds a candidate of strictly lower
\* cost, and the remaining budget is lowered by the cost of the candidate
\* taken (it is the full budget again after a reported match).
C28_FirstFoundNotBest ==
    /\ LevDone =>
           /\ {ret[i][1] : i \in 1..Len(ret)} = Stops(args[1], args[2], args[3])
           /\ \A i, j \in 1..Len(ret) :
                  i < j => DepthFirstBefore(ret[i][1], ret[j][1])
    /\ op = "extractKeywords" =>
           /\ \A i \in Taken :
                  LET l == ret.lookups[i]
                      first == CHOOSE n \in Stops(l[3], l[1], l[4]) :
                                   \A o \in Stops(l[3], l[1], l[4]) \ {n} :
                                       DepthFirstBefore(n, o)
                  IN l[2] = IF l[3] = <<>> THEN 0 ELSE LastCell(l[3], l[4], first)
           /\ \A i \in 1..(Len(ret.lookups) - 1) :
                  ret.lookups[i + 1][1] \in
                      {ret.lookups[i][1] - ret.lookups[i][2], args[3]}

\* the scanner took a candidate although a later branch held one of lower cost
C28_Witness ==
    /\ ExtractDone
    /\ \E i \in Taken :
           LET l == ret.lookups[i]
           IN \E n \in Stops(l[3], l[1], l[4]) : LastCell(l[3], l[4], n) < l[2]

\* ---------------------------------------------------------------------------
\* The budget

\* the budget after lookup i of a matching call
BudgetAfter(i) == ret.lookups[i][1] - ret.lookups[i][2]

\* C29: Budget invariant.  Throughout extractKeywords and replaceKeywords
\* 0 <= currCost <= maxCost: every approximate lookup is started with a
\* budget that is positive (none is started at 0) and at most maxCost, every
\* candidate yielded by the approximate search has a cost not greater than
\* the maxCost it was called with, so the budget left after subtracting the
\* cost taken is not negative; the budget at the start of every match
\* attempt is between 0 and maxCost.
C29_BudgetInvariant ==
    /\ LevDone => \A i \in 1..Len(ret) : 0 <= ret[i][2] /\ ret[i][2] <= args[2]
    /\ op \in MatchingOps =>
           LET maxCost == IF op = "extractKeywords" THEN args[3] ELSE args[2]
           IN /\ \A i \in 1..Len(ret.lookups) :
                     /\ 0 < ret.lookups[i][1]
                     /\ ret.lookups[i][1] <= maxCost
                     /\ ret.lookups[i][2] >= 0 =>
                            0 <= BudgetAfter(i) /\ BudgetAfter(i) <= maxCost
              /\ op = "extractKeywords" =>
                     \A i \in 1..Len(ret.attempts) :
                         0 <= ret.attempts[i][2] /\ ret.attempts[i][2] <= maxCost

\* replaceKeywords used up its whole budget of 2 in one lookup
C29_Witness ==
    /\ ReplaceDone
    /\ args[2] = 2
    /\ \E i \in 1..Len(ret.lookups) : ret.lookups[i][2] = 2

\* ---------------------------------------------------------------------------
\* Progress of the scan

\* the outer index is greater after the iteration than before it
OuterAdvances(e) == e[3] > e[2]

\* the inner iteration advances idy, leaves the loop, or ends on a node
\* strictly deeper in the trie
InnerProgresses(e) == e[3] > e[2] \/ e[6] \/ e[5] > e[4]

\* C30: Termination of the scan.  extractKeywords and replaceKeywords
\* terminate for every trie, sentence and maxCost: the outer index idx is
\* strictly greater at the end of every outer iteration than at its start
\* (the jumps idx = sequenceEndPos and idx += nextWord.length - 1 never move
\* it backwards), and every iteration of the inner extension loop advances
\* idy, leaves the loop, or moves strictly deeper in the trie.
C30_ScanProgress ==
    op \in MatchingOps =>
        \A i \in 1..Len(ret.iterations) :
            LET e == ret.iterations[i]
            IN IF e[1] = "outer" THEN OuterAdvances(e) ELSE InnerProgresses(e)

====
